---- MODULE Spec2Model ----
(***************************************************************************)
(* Access-Rides mock backend: the rides router (book, status update,       *)
(* cancel, rate) over the module-level in-memory arrays `rides` and        *)
(* `drivers` (src/metro.config.js, rides section), and the chat router     *)
(* over `chatMessages` (src/backend/routes/chat.js).                       *)
(*                                                                         *)
(* Every route handler is an `async` function without any `await`, so on   *)
(* Node's single-threaded event loop it runs from its first statement to   *)
(* its response without interleaving: one handler = one atomic action.     *)
(* Concurrent requests are modelled by the arbitrary order in which Next   *)
(* picks the handlers and their inputs.  The register handler of the auth  *)
(* router (src/metro.config.js, auth section) awaits bcrypt.hash: it is two*)
(* actions, and other requests run between them.                           *)
(* The support router (src/backend/routes/support.js) is modelled with the *)
(* order in which its GET routes are registered, and the VoiceRecorder     *)
(* component (src/unnamed/part_003) with its suspended calls and timers.   *)
(***************************************************************************)
EXTENDS Integers, Sequences, FiniteSets, TLC

VARIABLES
  rides,    \* let rides = [...]: the rides array
  drivers,  \* let drivers = [...]: the drivers array
  now,      \* the reading of Date.now() / new Date()
  res,      \* the response to the last request: handler and HTTP status
  served,   \* number of requests the routers have handled
  chatMessages, \* let chatMessages = [...]: the messages array
  users,    \* let users = [...]: the users array of the auth router
  hashing,  \* the register requests suspended at await bcrypt.hash(...)
  changing, \* the change-password requests suspended at an await of bcrypt
  supportTickets, \* let supportTickets = [...]: the tickets array
  isRecording,    \* VoiceRecorder: useState(false)
  recording,      \* VoiceRecorder: useState(null), the Recording object
  permissionResponse, \* VoiceRecorder: useState(null), the audio permission
  isProcessing,   \* VoiceRecorder: useState(false)
  timeoutRef,     \* VoiceRecorder: timeoutRef.current
  timers,         \* the auto-stop timers that setTimeout holds pending
  starts,         \* the calls of startRecording suspended at an await
  stops,          \* the calls of stopRecording suspended at an await
  pressed,        \* the record button is held down
  closed,         \* onClose() was called: the recorder is dismissed
  presses,        \* number of times the record button was pressed in
  stopped,        \* stopRecording has run since the last press-in
  requests,       \* number of calls of requestAudioPermission (of the mount
                  \* or of the permission button) suspended at their await
  directs,        \* number of calls of startDirectSpeechRecognition
                  \* suspended at an await
  closeTimers     \* number of pending timers setTimeout(() => onClose(), 100)

\* the state of the auth router
authVars == <<users, hashing, changing>>

\* the state outside the rides router and the chat router
\* the state of the support router
supportVars == <<supportTickets>>

\* the state of the VoiceRecorder component
recorderVars ==
  <<isRecording, recording, permissionResponse, isProcessing, timeoutRef,
    timers, starts, stops, pressed, closed, presses, stopped, requests,
    directs, closeTimers>>

restVars == <<authVars, supportVars, recorderVars>>

vars == <<rides, drivers, now, res, served, chatMessages, restVars>>

----------------------------------------------------------------------------
(* Bounds of the model *)

\* the rides array holds at most this many rides (two of them are seed data)
MaxRides == 4
\* the record button of the VoiceRecorder is pressed in at most this often
MaxPresses == 2
\* at most this many calls of requestAudioPermission, and of
\* startDirectSpeechRecognition, are suspended at one time
MaxPending == 2
\* Date.now() takes the values Clock0 .. MaxClock
MaxClock == 5
\* the router handles at most this many requests
MaxRequests == 3
\* ... and at most this many where ratings are followed over several rides
MaxRateRequests == 4
\* the chatMessages array holds at most this many messages (three of them are
\* seed data)
MaxMessages == 5

----------------------------------------------------------------------------
(* Values *)

\* a field that is absent (JavaScript undefined) is the empty tuple, a field
\* holding v is <<v>>
Undefined == <<>>
Some(v) == <<v>>
IsSet(f) == f # Undefined
\* what a record field holds after `field: f`
Value(f) == IF IsSet(f) THEN f[1] ELSE Undefined

\* Time is counted in milliseconds from 2024-01-15T11:00:00Z, the latest dated
\* timestamp of the seed data (ride_1 was created at 10:30:00Z and completed
\* at 11:00:00Z).  Clock0 is Date.now() when the modules are loaded (new Date()
\* in the seed data); it is later than every dated seed timestamp and differs
\* from the numbers of the seed ids ride_1, ride_2, msg_1, msg_2, msg_3.
SeedCreatedAt == -1800000
SeedCompletedAt == 0
Clock0 == 4
\* 10 * 60 * 1000 and 15 * 60 * 1000
SeedLeadTime == 600000
BookLeadTime == 900000

ActiveStatuses == {"requested", "assigned", "in_progress"}
TerminalStatuses == {"completed", "cancelled"}
Statuses == ActiveStatuses \cup TerminalStatuses

\* rating 4.8 is kept as the fraction num/den of the division that produced it
Fraction(n, d) == [num |-> n, den |-> d]

\* latitude and longitude in units of 0.0001 degree
SeedLocation1 == [latitude |-> 407128, longitude |-> -740060, lastUpdated |-> Clock0]
SeedLocation2 == [latitude |-> 407589, longitude |-> -739851, lastUpdated |-> Clock0]

\* let rides = [ ... ]   (the ride id `ride_<n>` is kept as the number n, a
\* fare as its amount in cents)
SeedRides ==
  << [ id |-> 1, passengerId |-> "user_1", driverId |-> "driver_1",
       pickupLocation |-> "123 Main Street, Downtown",
       destination |-> "456 Oak Avenue, Uptown",
       status |-> "completed", fare |-> 1550,
       rideType |-> "access-rides",
       specialRequirements |-> {"wheelchair_accessible", "voice_guidance"},
       createdAt |-> SeedCreatedAt, estimatedArrival |-> Undefined,
       completedAt |-> Some(SeedCompletedAt), cancelledAt |-> Undefined,
       cancellationReason |-> Undefined, updatedAt |-> Undefined,
       rating |-> Undefined, feedback |-> Undefined, ratedAt |-> Undefined ],
     [ id |-> 2, passengerId |-> "user_2", driverId |-> "driver_2",
       pickupLocation |-> "789 Pine Road, Midtown",
       destination |-> "321 Elm Street, Suburbs",
       status |-> "in_progress", fare |-> 2275,
       rideType |-> "access-rides",
       specialRequirements |-> {"sign_language_support"},
       createdAt |-> Clock0, estimatedArrival |-> Some(Clock0 + SeedLeadTime),
       completedAt |-> Undefined, cancelledAt |-> Undefined,
       cancellationReason |-> Undefined, updatedAt |-> Undefined,
       rating |-> Undefined, feedback |-> Undefined, ratedAt |-> Undefined ] >>

\* let drivers = [ ... ]
SeedDrivers ==
  << [ id |-> "driver_1", rating |-> Fraction(48, 10),
       accessibilityFeatures |->
         {"wheelchair_ramp", "voice_guidance", "sign_language_support"},
       location |-> SeedLocation1, isAvailable |-> TRUE ],
     [ id |-> "driver_2", rating |-> Fraction(49, 10),
       accessibilityFeatures |-> {"wheelchair_ramp", "voice_guidance"},
       location |-> SeedLocation2, isAvailable |-> TRUE ] >>

\* let chatMessages = [ ... ]   (the message id `msg_<n>` is kept as the number
\* n, a ride id as in the rides array; the message texts are shortened)
SeedMessages ==
  << [ id |-> 1, rideId |-> 1, senderId |-> "driver_1", senderType |-> "driver",
       message |-> "Hello!", timestamp |-> -1800000,
       messageType |-> "text", audioUrl |-> Undefined, isRead |-> TRUE ],
     [ id |-> 2, rideId |-> 1, senderId |-> "user_1", senderType |-> "passenger",
       message |-> "Thank you!", timestamp |-> -1740000,
       messageType |-> "text", audioUrl |-> Undefined, isRead |-> TRUE ],
     [ id |-> 3, rideId |-> 1, senderId |-> "driver_1", senderType |-> "driver",
       message |-> "I'm here!", timestamp |-> -900000,
       messageType |-> "text", audioUrl |-> Undefined, isRead |-> FALSE ] >>

----------------------------------------------------------------------------
(* Request inputs *)

Tags == {"voice_guidance", "sign_language_support"}
RequirementSets == SUBSET Tags
PassengerIds == {Undefined, Some("user_1")}
PickupLocations == {Undefined, Some("A")}
Destinations == {Undefined, Some("B")}
\* the pairs <<fare, estimatedFare>> of a booking
NoFare == {<<Undefined, Undefined>>}
FareInputs == {<<Undefined, Undefined>>, <<Some(1000), Some(-500)>>}
\* a ride id no ride carries
UnknownRideId == 99
RideIds == {rides[i].id : i \in 1..Len(rides)} \cup {UnknownRideId}
StatusInputs == {"in_progress", "completed", "cancelled", "bogus"}
NoLocation == {Undefined}
LocationInputs == {Undefined, Some([latitude |-> 407000, longitude |-> -740000])}
Reasons == {Some("changed my mind")}
FewRatings == {Some(4), Some(6)}
Feedbacks == {Undefined}
\* the bodies <<rating, feedback>> of the rate requests
RateBodies ==
  {<<Undefined, Undefined>>, <<Some(0), Undefined>>, <<Some(4), Undefined>>,
   <<Some(5), Some("great")>>, <<Some(6), Some("great")>>}

\* req.params.rideId of the chat router (it is not looked up in the rides)
ChatRideIds == {1, 2}
\* the bodies of the text message requests
MessageBodies ==
  { [senderId |-> Some("user_1"), senderType |-> Some("passenger"),
     message |-> Some("hi"), messageType |-> Undefined],
    [senderId |-> Some("driver_1"), senderType |-> Some("driver"),
     message |-> Some("hi"), messageType |-> Some("image")],
    [senderId |-> Some("user_1"), senderType |-> Some("admin"),
     message |-> Some("hi"), messageType |-> Undefined],
    [senderId |-> Undefined, senderType |-> Some("passenger"),
     message |-> Some("hi"), messageType |-> Undefined],
    [senderId |-> Some("user_1"), senderType |-> Undefined,
     message |-> Some("hi"), messageType |-> Undefined],
    [senderId |-> Some("user_1"), senderType |-> Some("passenger"),
     message |-> Some(""), messageType |-> Undefined] }
\* the bodies of the voice message requests
VoiceBodies ==
  { [senderId |-> Some("user_1"), senderType |-> Some("passenger"),
     audioUrl |-> Some("voice.m4a"), transcription |-> Undefined],
    [senderId |-> Some("driver_1"), senderType |-> Some("driver"),
     audioUrl |-> Some("voice.m4a"), transcription |-> Some("on my way")],
    [senderId |-> Some("user_1"), senderType |-> Some("admin"),
     audioUrl |-> Some("voice.m4a"), transcription |-> Undefined],
    [senderId |-> Some("user_1"), senderType |-> Some("passenger"),
     audioUrl |-> Undefined, transcription |-> Some("on my way")] }
\* the bodies <<userId, userType>> of the mark-as-read requests
ReadBodies ==
  { <<Some("user_1"), Some("passenger")>>, <<Some("driver_1"), Some("driver")>>,
    <<Some("driver_2"), Some("driver")>>, <<Undefined, Some("passenger")>> }
\* the query <<latitude, longitude, radius>> of the nearby requests: the
\* coordinates in 1/10000 degree as the locations, the radius in metres
NearbyQueries ==
  { <<Some(407128), Some(-740060), Undefined>>,
    <<Some(407128), Some(-740060), Some(6000)>>,
    <<Some(407500), Some(-739900), Undefined>>,
    <<Some(407500), Some(-739900), Some(6000)>>,
    <<Undefined, Some(-740060), Undefined>> }
\* the request <<userId, limit, offset>> of the ride history (userId is a path
\* parameter, limit and offset are query parameters)
HistoryQueries ==
  { <<"user_1", Undefined, Undefined>>, <<"user_1", Some(1), Some(1)>>,
    <<"user_2", Some(1), Undefined>> }
\* the requirements of the bookings that are followed through the registry of
\* drivers: both drivers offer the first, only driver_1 the second
AssignedRequirements == {{"voice_guidance"}, {"sign_language_support"}}
\* the query <<limit, offset>> of the message list requests
ListQueries == {<<Undefined, Undefined>>, <<Some(1), Some(1)>>, <<Some(2), Some(0)>>}
\* the Authorization header of a request as jwt.verify reads it: none, a token
\* that does not verify, the token of user_1, and a token that verifies and
\* names a user that is not stored
Tokens ==
  { Undefined, Some([valid |-> FALSE, userId |-> "user_1"]),
    Some([valid |-> TRUE, userId |-> "user_1"]),
    Some([valid |-> TRUE, userId |-> "user_9"]) }
\* the bodies <<email, password, name>> of the register requests: a stored
\* email, two new ones, and a body without email
RegisterBodies ==
  { <<Some("john@example.com"), Some("pw"), Some("John")>>,
    <<Some("new@example.com"), Some("pw"), Some("New")>>,
    <<Some("other@example.com"), Some("pw2"), Some("Other")>>,
    <<Undefined, Some("pw"), Some("Nobody")>> }
\* the bodies <<userId, subject, description, category, priority>> of the
\* requests that create a ticket
TicketBodies ==
  { <<Some("user_1"), Some(<<"Refund">>), Some(<<"No", "voice", "prompt">>),
      Some("billing"), Undefined>>,
    <<Some("user_2"), Some(<<"Search">>), Some(<<"Cannot", "search">>),
      Undefined, Some("low")>>,
    <<Some("user_1"), Some(<<>>), Some(<<"Empty", "subject">>),
      Undefined, Undefined>> }
\* the paths of the GET requests to the support router, segment by segment:
\* the search, a stored ticket, a ticket that does not exist, the tickets of
\* a user, and a path that only POST serves
GetPaths ==
  { <<"tickets", "search">>, <<"tickets", "ticket_1">>, <<"tickets", "ticket_9">>,
    <<"tickets", "user", "user_1">>, <<"tickets">> }
\* the query strings of the GET requests to the support router
NoQuery ==
  [ q |-> Undefined, category |-> Undefined, status |-> Undefined,
    priority |-> Undefined, limit |-> Undefined, offset |-> Undefined ]
SupportQueries ==
  { NoQuery,
    [NoQuery EXCEPT !.q = Some(<<"VOICE">>)],
    [NoQuery EXCEPT !.q = Some(<<"sign", "language">>), !.status = Some("in_progress")],
    [NoQuery EXCEPT !.q = Some(<<"search">>), !.category = Some("general"),
                    !.limit = Some(1)],
    [NoQuery EXCEPT !.q = Some(<<>>)] }
\* the identity <<userId, userType>> of the unread-count requests (userId is a
\* path parameter, userType a query parameter)
CountQueries ==
  { <<"user_1", Some("passenger")>>, <<"driver_1", Some("driver")>>,
    <<"driver_2", Some("driver")>>, <<"user_1", Undefined>> }
\* a message id no message carries
UnknownMessageId == 99
MessageIds == {chatMessages[i].id : i \in 1..Len(chatMessages)} \cup {UnknownMessageId}

----------------------------------------------------------------------------
(* Helpers: Array.prototype.find / some / filter *)

\* JavaScript truthiness of an optional string (undefined and '' are falsy)
\* and of an optional number (undefined and 0 are falsy)
TruthyString(f) == IsSet(f) /\ f[1] # ""
TruthyNumber(f) == IsSet(f) /\ f[1] # 0

\* Array.prototype.find is kept as an index: that of the first element that
\* satisfies the predicate, 0 if there is none

\* rides.find(r => r.id === rideId)
FindRide(rs, rideId) ==
  IF \E i \in 1..Len(rs) : rs[i].id = rideId
  THEN CHOOSE i \in 1..Len(rs) :
         rs[i].id = rideId /\ \A j \in 1..(i - 1) : rs[j].id # rideId
  ELSE 0

\* the mutant of FindDriver: the first driver of the array, whatever its id
FindDriver_First(ds, driverId) == IF Len(ds) > 0 THEN 1 ELSE 0

\* drivers.find(d => d.id === ride.driverId), 0 where the code has undefined
FindDriver(ds, driverId) ==
  IF \E i \in 1..Len(ds) : ds[i].id = driverId
  THEN CHOOSE i \in 1..Len(ds) :
         ds[i].id = driverId /\ \A j \in 1..(i - 1) : ds[j].id # driverId
  ELSE 0

\* the mutant of Matches: a request without requirements matches every
\* available driver
Matches_NothingRequired(driver, specialRequirements) ==
  /\ driver.isAvailable
  /\ \/ specialRequirements = {}
     \/ \E feature \in driver.accessibilityFeatures : feature \in specialRequirements

\* the mutant of Matches: the feature test is negated
Matches_Negated(driver, specialRequirements) ==
  /\ driver.isAvailable
  /\ ~\E feature \in driver.accessibilityFeatures : feature \in specialRequirements

\* the mutant of Matches: the availability test is dropped
Matches_AnyDriver(driver, specialRequirements) ==
  \E feature \in driver.accessibilityFeatures : feature \in specialRequirements

\* driver.isAvailable && driver.vehicle.accessibilityFeatures.some(feature =>
\*   specialRequirements.includes(feature))
Matches(driver, specialRequirements) ==
  /\ driver.isAvailable
  /\ \E feature \in driver.accessibilityFeatures : feature \in specialRequirements

\* the mutant of AvailableDriver: without a match the first available driver
\* is taken
AvailableDriver_Fallback(ds, specialRequirements) ==
  IF \E i \in 1..Len(ds) : Matches(ds[i], specialRequirements)
  THEN CHOOSE i \in 1..Len(ds) :
         /\ Matches(ds[i], specialRequirements)
         /\ \A j \in 1..(i - 1) : ~Matches(ds[j], specialRequirements)
  ELSE IF \E i \in 1..Len(ds) : ds[i].isAvailable
  THEN CHOOSE i \in 1..Len(ds) :
         ds[i].isAvailable /\ \A j \in 1..(i - 1) : ~ds[j].isAvailable
  ELSE 0

\* the mutant of AvailableDriver: the last match is taken
AvailableDriver_Last(ds, specialRequirements) ==
  IF \E i \in 1..Len(ds) : Matches(ds[i], specialRequirements)
  THEN CHOOSE i \in 1..Len(ds) :
         /\ Matches(ds[i], specialRequirements)
         /\ \A j \in (i + 1)..Len(ds) : ~Matches(ds[j], specialRequirements)
  ELSE 0

\* drivers.find(driver => ...)
AvailableDriver(ds, specialRequirements) ==
  IF \E i \in 1..Len(ds) : Matches(ds[i], specialRequirements)
  THEN CHOOSE i \in 1..Len(ds) :
         /\ Matches(ds[i], specialRequirements)
         /\ \A j \in 1..(i - 1) : ~Matches(ds[j], specialRequirements)
  ELSE 0

\* the mutant of MissingRequiredFields: only passengerId is validated
MissingRequiredFields_PassengerOnly(passengerId, pickupLocation, destination) ==
  ~TruthyString(passengerId)

\* !passengerId || !pickupLocation || !destination
MissingRequiredFields(passengerId, pickupLocation, destination) ==
  ~TruthyString(passengerId) \/ ~TruthyString(pickupLocation)
    \/ ~TruthyString(destination)

\* the mutant of DriverReleased: every driver is made available
DriverReleased_All(ds, d) ==
  [k \in 1..Len(ds) |-> [ds[k] EXCEPT !.isAvailable = TRUE]]

\* the mutant of DriverReleased: the driver is left as it is
DriverReleased_Never(ds, d) == ds

\* the mutant of AlreadyTerminal: only a completed ride is refused
AlreadyTerminal_CompletedOnly(ride) == ride.status = "completed"

\* const driver = drivers.find(d => d.id === ride.driverId);
\* if (driver) { driver.isAvailable = true; }      (d is the index found)
DriverReleased(ds, d) ==
  IF d # 0 THEN [ds EXCEPT ![d].isAvailable = TRUE] ELSE ds

\* ride.status === 'completed' || ride.status === 'cancelled'
AlreadyTerminal(ride) == ride.status = "completed" \/ ride.status = "cancelled"

\* the mutant of InvalidRating: the upper limit is not tested
InvalidRating_NoUpperLimit(rating) == ~TruthyNumber(rating) \/ rating[1] < 1

\* !rating || rating < 1 || rating > 5
InvalidRating(rating) == ~TruthyNumber(rating) \/ rating[1] < 1 \/ rating[1] > 5

\* the mutant of Rated: the fare is cleared as well
Rated_FareCleared(ride, rating, feedback, ratedAt) ==
  [ride EXCEPT !.rating = rating, !.feedback = feedback,
               !.ratedAt = Some(ratedAt), !.fare = 0]

\* ride.rating = rating; ride.feedback = feedback; ride.ratedAt = new Date()
Rated(ride, rating, feedback, ratedAt) ==
  [ride EXCEPT !.rating = rating, !.feedback = feedback, !.ratedAt = Some(ratedAt)]

\* estimatedFare || fare || 0
BookedFare(fare, estimatedFare) ==
  IF TruthyNumber(estimatedFare) THEN estimatedFare[1]
  ELSE IF TruthyNumber(fare) THEN fare[1]
  ELSE 0

\* the mutant of DriverRides: the rated rides of every driver are kept
DriverRides_AnyDriver(rs, driverId) ==
  {i \in 1..Len(rs) : TruthyNumber(rs[i].rating)}

\* rides.filter(r => r.driverId === driver.id && r.rating): the indices kept
DriverRides(rs, driverId) ==
  {i \in 1..Len(rs) : rs[i].driverId = driverId /\ TruthyNumber(rs[i].rating)}

\* driverRides.reduce((sum, r) => sum + r.rating, 0)
RECURSIVE SumRatings(_, _)
SumRatings(rs, idx) ==
  IF idx = {} THEN 0
  ELSE LET i == CHOOSE j \in idx : TRUE
       IN rs[i].rating[1] + SumRatings(rs, idx \ {i})

TotalRating(rs, driverId) == SumRatings(rs, DriverRides(rs, driverId))

\* driverRides.length
RatedCount(rs, driverId) == Cardinality(DriverRides(rs, driverId))

\* Array.prototype.slice(start, end) for start, end >= 0 (indices from 0)
Slice(s, start, end) ==
  LET stop == IF end < Len(s) THEN end ELSE Len(s)
  IN IF start < stop THEN SubSeq(s, start + 1, stop) ELSE <<>>

\* const { limit = 50, offset = 0 } = req.query, each read with parseInt
QueryLimit(limit) == IF IsSet(limit) THEN limit[1] ELSE 50
QueryOffset(offset) == IF IsSet(offset) THEN offset[1] ELSE 0

\* let users = [...]: the two users of the mock database (the fields that the
\* register, profile and change-password handlers read or write, of the
\* profile the name; both users were created before the modules were loaded
\* and have no updatedAt)
SeedUsers ==
  << [ id |-> "user_1", email |-> "john@example.com", name |-> "John Doe",
       password |-> [hashOf |-> "password"], createdAt |-> -2,
       updatedAt |-> Undefined ],
     [ id |-> "user_2", email |-> "sarah@example.com", name |-> "Sarah Smith",
       password |-> [hashOf |-> "password"], createdAt |-> -1,
       updatedAt |-> Undefined ] >>

\* useState(null) of recording and the null of timeoutRef.current; a Recording
\* object and a timer are known by the number of the press that made them
NoRecording == 0
NoTimer == 0

\* let supportTickets = [...]: the two tickets of the mock database (the
\* fields that the ticket handlers read).  A text is kept as the sequence of
\* its words; the timestamps are the readings of the clock at the dates of
\* the seed data (ticket_1 was created at 2024-01-14T10:30:00Z and answered
\* at 11:00:00Z, ticket_2 was created at 2024-01-13T15:45:00Z and answered
\* and updated at 2024-01-15T09:20:00Z)
SeedTickets ==
  << [ id |-> "ticket_1", userId |-> "user_1",
       subject |-> <<"Voice", "commands", "not", "working">>,
       description |-> <<"The", "voice", "recognition", "feature", "is", "not",
                         "responding", "when", "I", "try", "to", "book", "a",
                         "ride">>,
       category |-> "technical", priority |-> "high", status |-> "open",
       createdAt |-> -88200000, updatedAt |-> -88200000,
       assignedTo |-> Some("support_agent_1"),
       responses |-> << [ id |-> "response_1",
                          message |-> <<"Thank", "you", "for", "reporting",
                                        "this", "issue.", "We", "are",
                                        "investigating", "the", "voice",
                                        "recognition", "problem.">>,
                          author |-> "support_agent_1", authorType |-> "agent",
                          createdAt |-> -86400000 ] >> ],
     [ id |-> "ticket_2", userId |-> "user_2",
       subject |-> <<"Sign", "language", "recognition", "needs", "improvement">>,
       description |-> <<"The", "sign", "language", "feature", "is", "not",
                         "recognizing", "my", "gestures", "correctly">>,
       category |-> "accessibility", priority |-> "medium",
       status |-> "in_progress",
       createdAt |-> -155700000, updatedAt |-> -6000000,
       assignedTo |-> Some("support_agent_2"),
       responses |-> << [ id |-> "response_2",
                          message |-> <<"We", "are", "working", "on",
                                        "improving", "the", "sign", "language",
                                        "recognition", "model.", "A", "new",
                                        "update", "should", "be", "available",
                                        "soon.">>,
                          author |-> "support_agent_2", authorType |-> "agent",
                          createdAt |-> -6000000 ] >> ] >>

----------------------------------------------------------------------------
(* State *)

Init ==
  /\ rides = SeedRides
  /\ drivers = SeedDrivers
  /\ now = Clock0
  /\ res = [op |-> "none", code |-> 0]
  /\ served = 0
  /\ chatMessages = SeedMessages
  /\ users = SeedUsers
  /\ hashing = <<>>
  /\ changing = <<>>
  /\ supportTickets = SeedTickets
  /\ isRecording = FALSE
  /\ recording = NoRecording
  /\ permissionResponse = "null"
  /\ isProcessing = FALSE
  /\ timeoutRef = NoTimer
  /\ timers = {}
  /\ starts = {}
  /\ stops = <<>>
  /\ pressed = FALSE
  /\ closed = FALSE
  /\ presses = 0
  /\ stopped = FALSE
  /\ requests = 1
  /\ directs = 0
  /\ closeTimers = 0

\* res.status(code).json(...) of the handler op; res.json(...) is status 200
Response(op, code) == [op |-> op, code |-> code]

\* router.post('/book')
book(passengerId, pickupLocation, destination, fare, estimatedFare, specialRequirements) ==
  IF MissingRequiredFields(passengerId, pickupLocation, destination)
  THEN /\ res' = Response("book", 400)
       /\ UNCHANGED <<rides, drivers, now>>
  ELSE LET availableDriver == AvailableDriver(drivers, specialRequirements) IN
       IF availableDriver = 0
       THEN /\ res' = Response("book", 404)
            /\ UNCHANGED <<rides, drivers, now>>
       ELSE LET newRide ==
                  [ id |-> now, passengerId |-> Value(passengerId),
                    driverId |-> drivers[availableDriver].id,
                    pickupLocation |-> Value(pickupLocation),
                    destination |-> Value(destination),
                    status |-> "requested",
                    fare |-> BookedFare(fare, estimatedFare),
                    rideType |-> "access-rides",
                    specialRequirements |-> specialRequirements,
                    createdAt |-> now,
                    estimatedArrival |-> Some(now + BookLeadTime),
                    completedAt |-> Undefined, cancelledAt |-> Undefined,
                    cancellationReason |-> Undefined, updatedAt |-> Undefined,
                    rating |-> Undefined, feedback |-> Undefined,
                    ratedAt |-> Undefined ]
            IN /\ Len(rides) < MaxRides          \* bound of the model
               /\ rides' = Append(rides, newRide)
               /\ drivers' = [drivers EXCEPT ![availableDriver].isAvailable = FALSE]
               /\ res' = Response("book", 201)
               /\ UNCHANGED now

\* router.patch('/:rideId/status')
updateStatus(rideId, status, location) ==
  LET r == FindRide(rides, rideId) IN
  IF r = 0
  THEN /\ res' = Response("updateStatus", 404)
       /\ UNCHANGED <<rides, drivers, now>>
  ELSE LET d == FindDriver(drivers, rides[r].driverId)
           located ==
             IF IsSet(location) /\ d # 0
             THEN [drivers EXCEPT ![d].location =
                     [latitude |-> location[1].latitude,
                      longitude |-> location[1].longitude,
                      lastUpdated |-> now]]
             ELSE drivers
       IN /\ rides' = [rides EXCEPT
                         ![r].status = status,
                         ![r].updatedAt = Some(now),
                         ![r].completedAt =
                           IF status = "completed" THEN Some(now) ELSE @]
          /\ drivers' = IF status = "completed"
                        THEN DriverReleased(located, d)
                        ELSE located
          /\ res' = Response("updateStatus", 200)
          /\ UNCHANGED now

\* router.post('/:rideId/cancel')
cancel(rideId, reason) ==
  LET r == FindRide(rides, rideId) IN
  IF r = 0
  THEN /\ res' = Response("cancel", 404)
       /\ UNCHANGED <<rides, drivers, now>>
  ELSE IF AlreadyTerminal(rides[r])
  THEN /\ res' = Response("cancel", 400)
       /\ UNCHANGED <<rides, drivers, now>>
  ELSE LET d == FindDriver(drivers, rides[r].driverId) IN
       /\ rides' = [rides EXCEPT
                      ![r].status = "cancelled",
                      ![r].cancelledAt = Some(now),
                      ![r].cancellationReason = reason]
       /\ drivers' = DriverReleased(drivers, d)
       /\ res' = Response("cancel", 200)
       /\ UNCHANGED now

\* router.post('/:rideId/rate')
rate(rideId, rating, feedback) ==
  LET r == FindRide(rides, rideId) IN
  IF InvalidRating(rating)
  THEN /\ res' = Response("rate", 400)
       /\ UNCHANGED <<rides, drivers, now>>
  ELSE IF r = 0
  THEN /\ res' = Response("rate", 404)
       /\ UNCHANGED <<rides, drivers, now>>
  ELSE IF rides[r].status # "completed"
  THEN /\ res' = Response("rate", 400)
       /\ UNCHANGED <<rides, drivers, now>>
  ELSE LET rated == [rides EXCEPT ![r] = Rated(rides[r], rating, feedback, now)]
           d == FindDriver(drivers, rides[r].driverId)
       IN /\ rides' = rated
          /\ drivers' = IF d # 0
                        THEN [drivers EXCEPT ![d].rating =
                                Fraction(TotalRating(rated, drivers[d].id),
                                         RatedCount(rated, drivers[d].id))]
                        ELSE drivers
          /\ res' = Response("rate", 200)
          /\ UNCHANGED now

\* the clock read by Date.now() / new Date() advances between requests
Tick ==
  /\ now < MaxClock
  /\ now' = now + 1
  /\ UNCHANGED <<rides, drivers, res, served, chatMessages, restVars>>

\* the bodies of the book requests: at most one required field is missing
BookBodies(fares) ==
  {b \in [passengerId : PassengerIds, pickupLocation : PickupLocations,
          destination : Destinations, fares : fares,
          specialRequirements : RequirementSets] :
     Cardinality({f \in {"passengerId", "pickupLocation", "destination"} :
                    b[f] = Undefined}) <= 1}

\* the book handler on the request body b
BookStep(b) ==
  book(b.passengerId, b.pickupLocation, b.destination, b.fares[1], b.fares[2],
       b.specialRequirements)

Book(fares) == \E b \in BookBodies(fares) : BookStep(b)

UpdateStatus(locations) ==
  \E rideId \in RideIds, status \in StatusInputs, location \in locations :
    updateStatus(rideId, status, location)

Cancel ==
  \E rideId \in RideIds, reason \in Reasons : cancel(rideId, reason)

Rate(ratings) ==
  \E rideId \in RideIds, rating \in ratings, feedback \in Feedbacks :
    rate(rideId, rating, feedback)

RateWith(bodies) ==
  \E rideId \in RideIds, b \in bodies : rate(rideId, b[1], b[2])

UpdateStatusTo(statuses) ==
  \E rideId \in RideIds, status \in statuses :
    updateStatus(rideId, status, Undefined)

\* one request to the rides router is handled
Serve(handler) ==
  /\ served < MaxRequests
  /\ handler
  /\ served' = served + 1
  /\ UNCHANGED <<chatMessages, restVars>>

Next ==
  \/ Serve(Book(NoFare))
  \/ Serve(UpdateStatus(NoLocation))
  \/ Serve(Cancel)
  \/ Serve(Rate(FewRatings))
  \/ Tick

Spec == Init /\ [][Next]_vars

\* concurrent book requests only: the handlers run one after the other in any
\* order, at any clock reading
NextBook ==
  \/ Serve(Book(FareInputs))
  \/ Tick

SpecBook == Init /\ [][NextBook]_vars

\* the ride lifecycle: bookings, status updates (with or without a location)
\* and cancellations
NextLifecycle ==
  \/ Serve(Book(NoFare))
  \/ Serve(UpdateStatus(LocationInputs))
  \/ Serve(Cancel)
  \/ Tick

SpecLifecycle == Init /\ [][NextLifecycle]_vars

\* one request to the rides router is handled, in the runs that follow the
\* ratings
ServeRate(handler) ==
  /\ served < MaxRateRequests
  /\ handler
  /\ served' = served + 1
  /\ UNCHANGED <<chatMessages, restVars>>

\* a well-formed booking that requires voice guidance
BookVoiceGuidance ==
  book(Some("user_1"), Some("A"), Some("B"), Undefined, Undefined,
       {"voice_guidance"})

\* rides are booked, moved to another status and rated
NextRate ==
  \/ ServeRate(BookVoiceGuidance)
  \/ ServeRate(UpdateStatusTo({"in_progress", "completed"}))
  \/ ServeRate(RateWith(RateBodies))
  \/ Tick

SpecRate == Init /\ [][NextRate]_vars

----------------------------------------------------------------------------
(* The rides router: the handlers that only read *)

\* const calculateDistance = (lat1, lng1, lat2, lng2) => ... return R * c
\* The haversine formula with R = 6371000 is kept as its values at the
\* coordinates of the model, in millimetres and rounded up, so that
\* distance <= radius is decided as by the formula for a radius in whole metres.
calculateDistance(lat1, lng1, lat2, lng2) ==
  LET p == <<lat1, lng1, lat2, lng2>> IN
  IF lat1 = lat2 /\ lng1 = lng2 THEN 0
  ELSE CASE p = <<407128, -740060, 407589, -739851>> -> 5420116
         [] p = <<407128, -740060, 407000, -740000>> -> 1510483
         [] p = <<407500, -739900, 407128, -740060>> -> 4350610
         [] p = <<407500, -739900, 407589, -739851>> -> 1072254
         [] p = <<407500, -739900, 407000, -740000>> -> 5623247

\* return { ...driver, distance }
WithDistance(driver, distance) ==
  [ id |-> driver.id, rating |-> driver.rating,
    accessibilityFeatures |-> driver.accessibilityFeatures,
    location |-> driver.location, isAvailable |-> driver.isAvailable,
    distance |-> distance ]

\* the mutant of WithinRadius: no driver is too far
WithinRadius_NoLimit(driver, searchRadius) == TRUE

\* driver.distance <= searchRadius   (the radius is in metres)
WithinRadius(driver, searchRadius) == driver.distance <= searchRadius * 1000

\* .sort((a, b) => a.distance - b.distance), a stable sort
InsertByDistance(sorted, x) ==
  LET k == Cardinality({i \in 1..Len(sorted) : sorted[i].distance - x.distance <= 0})
  IN SubSeq(sorted, 1, k) \o <<x>> \o SubSeq(sorted, k + 1, Len(sorted))

RECURSIVE SortByDistance(_)
SortByDistance(s) ==
  IF Len(s) <= 1 THEN s
  ELSE InsertByDistance(SortByDistance(SubSeq(s, 1, Len(s) - 1)), s[Len(s)])

\* drivers.filter(...).map(...).filter(...).sort(...)
NearbyDrivers(ds, userLat, userLng, searchRadius) ==
  LET available == SelectSeq(ds, LAMBDA driver : driver.isAvailable)
      mapped == [i \in 1..Len(available) |->
                   WithDistance(available[i],
                     calculateDistance(userLat, userLng,
                                       available[i].location.latitude,
                                       available[i].location.longitude))]
  IN SortByDistance(SelectSeq(mapped, LAMBDA driver : WithinRadius(driver, searchRadius)))

\* the mutant of nearby: the drivers array is replaced by the sorted list
nearby_InPlace(latitude, longitude, radius) ==
  IF ~IsSet(latitude) \/ ~IsSet(longitude)
  THEN /\ res' = Response("nearby", 400)
       /\ UNCHANGED <<rides, drivers, now>>
  ELSE LET nearbyDrivers ==
             NearbyDrivers(drivers, latitude[1], longitude[1],
                           IF IsSet(radius) THEN radius[1] ELSE 5000)
       IN /\ res' = [ op |-> "nearby", code |-> 200,
                      drivers |-> nearbyDrivers, count |-> Len(nearbyDrivers) ]
          /\ drivers' = nearbyDrivers
          /\ UNCHANGED <<rides, now>>

\* router.get('/drivers/nearby')   (req.query holds strings: a coordinate that
\* is given is truthy; radius = 5000 where it is not given)
nearby(latitude, longitude, radius) ==
  IF ~IsSet(latitude) \/ ~IsSet(longitude)
  THEN /\ res' = Response("nearby", 400)
       /\ UNCHANGED <<rides, drivers, now>>
  ELSE LET nearbyDrivers ==
             NearbyDrivers(drivers, latitude[1], longitude[1],
                           IF IsSet(radius) THEN radius[1] ELSE 5000)
       IN /\ res' = [ op |-> "nearby", code |-> 200,
                      drivers |-> nearbyDrivers, count |-> Len(nearbyDrivers) ]
          /\ UNCHANGED <<rides, drivers, now>>

Nearby ==
  \E q \in NearbyQueries : nearby(q[1], q[2], q[3])

\* router.get('/:rideId/status')   (of the driver the rating and the location
\* are kept)
getStatus(rideId) ==
  LET r == FindRide(rides, rideId) IN
  IF r = 0
  THEN /\ res' = Response("getStatus", 404)
       /\ UNCHANGED <<rides, drivers, now>>
  ELSE LET d == FindDriver(drivers, rides[r].driverId)
       IN /\ res' = [ op |-> "getStatus", code |-> 200, ride |-> rides[r],
                      driver |-> IF d # 0
                                 THEN Some([ rating |-> drivers[d].rating,
                                             location |-> drivers[d].location ])
                                 ELSE Undefined ]
          /\ UNCHANGED <<rides, drivers, now>>

\* .sort((a, b) => new Date(b.createdAt) - new Date(a.createdAt)), a stable
\* sort
InsertByCreatedAt(sorted, x) ==
  LET k == Cardinality({i \in 1..Len(sorted) : x.createdAt - sorted[i].createdAt <= 0})
  IN SubSeq(sorted, 1, k) \o <<x>> \o SubSeq(sorted, k + 1, Len(sorted))

RECURSIVE SortByCreatedAt(_)
SortByCreatedAt(s) ==
  IF Len(s) <= 1 THEN s
  ELSE InsertByCreatedAt(SortByCreatedAt(SubSeq(s, 1, Len(s) - 1)), s[Len(s)])

\* offset + parseInt(limit): offset = 0 where the query has none; an offset of
\* the query is a string, and + then puts the digits of the limit behind it
HistoryEnd(offset, limit) ==
  IF ~IsSet(offset) THEN limit
  ELSE IF limit < 10 THEN offset[1] * 10 + limit
  ELSE IF limit < 100 THEN offset[1] * 100 + limit
  ELSE offset[1] * 1000 + limit

\* router.get('/user/:userId/history')
history(userId, limit, offset) ==
  LET parsedLimit == IF IsSet(limit) THEN limit[1] ELSE 10
      userRides ==
        Slice(SortByCreatedAt(SelectSeq(rides, LAMBDA ride : ride.passengerId = userId)),
              QueryOffset(offset), HistoryEnd(offset, parsedLimit))
  IN /\ res' = [ op |-> "history", code |-> 200, rides |-> userRides,
                 total |-> Cardinality({i \in 1..Len(rides) : rides[i].passengerId = userId}),
                 limit |-> parsedLimit, offset |-> QueryOffset(offset) ]
     /\ UNCHANGED <<rides, drivers, now>>

GetStatus ==
  \E rideId \in RideIds : getStatus(rideId)

History ==
  \E q \in HistoryQueries : history(q[1], q[2], q[3])

BookAssigned ==
  \E specialRequirements \in AssignedRequirements :
    book(Some("user_1"), Some("A"), Some("B"), Undefined, Undefined,
         specialRequirements)

UpdateStatusWith(statuses, locations) ==
  \E rideId \in RideIds, status \in statuses, location \in locations :
    updateStatus(rideId, status, location)

\* the registry of drivers: rides are booked, moved on with or without a
\* location, cancelled and rated, and the drivers nearby, the status of a ride
\* and the history of a passenger are asked for
NextRegistry ==
  \/ Serve(BookAssigned)
  \/ Serve(UpdateStatusWith({"in_progress", "completed"}, LocationInputs))
  \/ Serve(Cancel)
  \/ Serve(RateWith({<<Some(4), Undefined>>}))
  \/ Serve(Nearby)
  \/ Serve(GetStatus)
  \/ Serve(History)
  \/ Tick

SpecRegistry == Init /\ [][NextRegistry]_vars

----------------------------------------------------------------------------
(* The chat router *)

\* const validSenderTypes = ['driver', 'passenger']
validSenderTypes == {"driver", "passenger"}

\* chatMessages.findIndex(msg => msg.id === messageId), 0 where the code has -1
FindMessage(ms, messageId) ==
  IF \E i \in 1..Len(ms) : ms[i].id = messageId
  THEN CHOOSE i \in 1..Len(ms) :
         /\ ms[i].id = messageId
         /\ \A j \in 1..(i - 1) : ms[j].id # messageId
  ELSE 0

\* chatMessages.splice(messageIndex, 1)
Splice(ms, messageIndex) ==
  [i \in 1..(Len(ms) - 1) |-> IF i < messageIndex THEN ms[i] ELSE ms[i + 1]]

\* router.post('/rides/:rideId/messages')
sendMessage(rideId, senderId, senderType, message, messageType) ==
  IF ~TruthyString(senderId) \/ ~TruthyString(senderType) \/ ~TruthyString(message)
  THEN /\ res' = Response("sendMessage", 400)
       /\ UNCHANGED <<chatMessages, now>>
  ELSE IF senderType[1] \notin validSenderTypes
  THEN /\ res' = Response("sendMessage", 400)
       /\ UNCHANGED <<chatMessages, now>>
  ELSE LET newMessage ==
             [ id |-> now, rideId |-> rideId, senderId |-> senderId[1],
               senderType |-> senderType[1], message |-> message[1],
               timestamp |-> now,
               messageType |-> IF IsSet(messageType) THEN messageType[1] ELSE "text",
               audioUrl |-> Undefined, isRead |-> FALSE ]
       IN /\ Len(chatMessages) < MaxMessages     \* bound of the model
          /\ chatMessages' = Append(chatMessages, newMessage)
          /\ res' = Response("sendMessage", 201)
          /\ UNCHANGED now

\* router.post('/rides/:rideId/voice-message')
sendVoiceMessage(rideId, senderId, senderType, audioUrl, transcription) ==
  IF ~TruthyString(senderId) \/ ~TruthyString(senderType) \/ ~TruthyString(audioUrl)
  THEN /\ res' = Response("sendVoiceMessage", 400)
       /\ UNCHANGED <<chatMessages, now>>
  ELSE LET newMessage ==
             [ id |-> now, rideId |-> rideId, senderId |-> senderId[1],
               senderType |-> senderType[1],
               message |-> IF TruthyString(transcription) THEN transcription[1]
                           ELSE "[Voice Message]",
               timestamp |-> now, messageType |-> "voice",
               audioUrl |-> audioUrl, isRead |-> FALSE ]
       IN /\ Len(chatMessages) < MaxMessages     \* bound of the model
          /\ chatMessages' = Append(chatMessages, newMessage)
          /\ res' = Response("sendVoiceMessage", 201)
          /\ UNCHANGED now

\* the mutant of MarkedRead: the flag is turned over
MarkedRead_Toggled(msg) == [msg EXCEPT !.isRead = ~msg.isRead]

\* the mutant of MarkedRead: the message is stamped again as well
MarkedRead_Restamped(msg) == [msg EXCEPT !.isRead = TRUE, !.timestamp = 0]

\* msg => { msg.isRead = true; return msg; }
MarkedRead(msg) == [msg EXCEPT !.isRead = TRUE]

\* router.patch('/rides/:rideId/messages/read')
markRead(rideId, userId, userType) ==
  IF ~TruthyString(userId) \/ ~TruthyString(userType)
  THEN /\ res' = Response("markRead", 400)
       /\ UNCHANGED <<chatMessages, now>>
  ELSE /\ chatMessages' =
            [i \in 1..Len(chatMessages) |->
               IF /\ chatMessages[i].rideId = rideId
                  /\ chatMessages[i].senderId # userId[1]
                  /\ chatMessages[i].senderType # userType[1]
               THEN MarkedRead(chatMessages[i])
               ELSE chatMessages[i]]
       /\ res' = Response("markRead", 200)
       /\ UNCHANGED now

\* router.delete('/messages/:messageId')
deleteMessage(messageId) ==
  LET messageIndex == FindMessage(chatMessages, messageId) IN
  IF messageIndex = 0
  THEN /\ res' = Response("deleteMessage", 404)
       /\ UNCHANGED <<chatMessages, now>>
  ELSE /\ chatMessages' = Splice(chatMessages, messageIndex)
       /\ res' = Response("deleteMessage", 200)
       /\ UNCHANGED now

SendMessage ==
  \E rideId \in ChatRideIds, b \in MessageBodies :
    sendMessage(rideId, b.senderId, b.senderType, b.message, b.messageType)

SendVoiceMessage ==
  \E rideId \in ChatRideIds, b \in VoiceBodies :
    sendVoiceMessage(rideId, b.senderId, b.senderType, b.audioUrl, b.transcription)

MarkRead ==
  \E rideId \in ChatRideIds, b \in ReadBodies : markRead(rideId, b[1], b[2])

DeleteMessage ==
  \E messageId \in MessageIds : deleteMessage(messageId)

\* one request to the chat router is handled
ServeChat(handler) ==
  /\ served < MaxRequests
  /\ handler
  /\ served' = served + 1
  /\ UNCHANGED <<rides, drivers, restVars>>

NextChat ==
  \/ ServeChat(SendMessage)
  \/ ServeChat(SendVoiceMessage)
  \/ ServeChat(MarkRead)
  \/ ServeChat(DeleteMessage)
  \/ Tick

SpecChat == Init /\ [][NextChat]_vars

----------------------------------------------------------------------------
(* The chat router: the handlers that only read *)

\* chatMessages.filter(msg => msg.rideId === rideId)
RideMessages(ms, rideId) == SelectSeq(ms, LAMBDA msg : msg.rideId = rideId)

\* the mutant of CompareTimestamp: the later message comes first
CompareTimestamp_Descending(a, b) == b.timestamp - a.timestamp

\* (a, b) => new Date(a.timestamp) - new Date(b.timestamp)
CompareTimestamp(a, b) == a.timestamp - b.timestamp

\* Array.prototype.sort with that comparator; the sort of V8 is stable, so it
\* is an insertion of each element behind the elements that do not come after
\* it
InsertByTimestamp(sorted, x) ==
  LET k == Cardinality({i \in 1..Len(sorted) : CompareTimestamp(sorted[i], x) <= 0})
  IN SubSeq(sorted, 1, k) \o <<x>> \o SubSeq(sorted, k + 1, Len(sorted))

RECURSIVE SortByTimestamp(_)
SortByTimestamp(s) ==
  IF Len(s) <= 1 THEN s
  ELSE InsertByTimestamp(SortByTimestamp(SubSeq(s, 1, Len(s) - 1)), s[Len(s)])

\* router.get('/rides/:rideId/messages')
listMessages(rideId, limit, offset) ==
  LET rideMessages ==
        Slice(SortByTimestamp(RideMessages(chatMessages, rideId)),
              QueryOffset(offset), QueryOffset(offset) + QueryLimit(limit))
  IN /\ res' = [ op |-> "listMessages", code |-> 200,
                 messages |-> rideMessages,
                 total |-> Len(RideMessages(chatMessages, rideId)),
                 limit |-> QueryLimit(limit), offset |-> QueryOffset(offset) ]
     /\ UNCHANGED <<chatMessages, now>>

\* the mutant of Unread: the sender type is not looked at
Unread_AnyType(ms, userId, userType) ==
  {i \in 1..Len(ms) : ms[i].senderId # userId /\ ~ms[i].isRead}

\* chatMessages.filter(msg => msg.senderId !== userId &&
\*   msg.senderType !== userType && !msg.isRead): the indices kept
Unread(ms, userId, userType) ==
  {i \in 1..Len(ms) :
     /\ ms[i].senderId # userId
     /\ ms[i].senderType # userType
     /\ ~ms[i].isRead}

\* router.get('/users/:userId/unread-count')
unreadCount(userId, userType) ==
  IF ~TruthyString(userType)
  THEN /\ res' = Response("unreadCount", 400)
       /\ UNCHANGED <<chatMessages, now>>
  ELSE /\ res' = [ op |-> "unreadCount", code |-> 200,
                   unreadCount |-> Cardinality(Unread(chatMessages, userId, userType[1])) ]
       /\ UNCHANGED <<chatMessages, now>>

\* Math.round(n / d) for d > 0: the nearest integer, a half goes up
MathRound(n, d) == (2 * n + d) \div (2 * d)

\* Object.values(conversations): the messages grouped by ride, here the rides
Conversations(ms) == {ms[i].rideId : i \in 1..Len(ms)}

\* conversation.sort((a, b) => new Date(a.timestamp) - new Date(b.timestamp))
Conversation(ms, rideId) == SortByTimestamp(RideMessages(ms, rideId))

\* the mutant of IsResponse: every message counts as a response
IsResponse_AnySender(conversation, i) == TRUE

\* if (currentMsg.senderId !== previousMsg.senderId)
IsResponse(conversation, i) ==
  conversation[i].senderId # conversation[i - 1].senderId

\* the loop for (let i = 1; i < conversation.length; i++) up to the message n
\* (counted from 1): what it adds to totalResponseTime and to responseCount
RECURSIVE ConversationResponseTime(_, _)
ConversationResponseTime(conversation, n) ==
  IF n <= 1 THEN 0
  ELSE ConversationResponseTime(conversation, n - 1)
       + (IF IsResponse(conversation, n)
          THEN conversation[n].timestamp - conversation[n - 1].timestamp
          ELSE 0)

RECURSIVE ConversationResponseCount(_, _)
ConversationResponseCount(conversation, n) ==
  IF n <= 1 THEN 0
  ELSE ConversationResponseCount(conversation, n - 1)
       + (IF IsResponse(conversation, n) THEN 1 ELSE 0)

\* Object.values(conversations).forEach(...): the sums over the rides
RECURSIVE TotalResponseTime(_, _)
TotalResponseTime(ms, rideIds) ==
  IF rideIds = {} THEN 0
  ELSE LET rideId == CHOOSE x \in rideIds : TRUE
           conversation == Conversation(ms, rideId)
       IN ConversationResponseTime(conversation, Len(conversation))
          + TotalResponseTime(ms, rideIds \ {rideId})

RECURSIVE ResponseCount(_, _)
ResponseCount(ms, rideIds) ==
  IF rideIds = {} THEN 0
  ELSE LET rideId == CHOOSE x \in rideIds : TRUE
           conversation == Conversation(ms, rideId)
       IN ConversationResponseCount(conversation, Len(conversation))
          + ResponseCount(ms, rideIds \ {rideId})

\* function calculateAverageResponseTime(): milliseconds to minutes is
\* / 1000 / 60
calculateAverageResponseTime(ms) ==
  LET totalResponseTime == TotalResponseTime(ms, Conversations(ms))
      responseCount == ResponseCount(ms, Conversations(ms))
  IN IF responseCount > 0
     THEN MathRound(totalResponseTime, responseCount * 60000)
     ELSE 0

\* chatMessages.filter(msg => msg.messageType === type).length
CountOfType(ms, type) == Cardinality({i \in 1..Len(ms) : ms[i].messageType = type})

\* router.get('/stats')   (messagesToday, which depends on the time zone of
\* the host, is not kept in the response)
stats ==
  /\ res' = [ op |-> "stats", code |-> 200,
              totalMessages |-> Len(chatMessages),
              messagesByType |-> [ text |-> CountOfType(chatMessages, "text"),
                                   voice |-> CountOfType(chatMessages, "voice"),
                                   image |-> CountOfType(chatMessages, "image") ],
              unreadMessages |->
                Cardinality({i \in 1..Len(chatMessages) : ~chatMessages[i].isRead}),
              averageResponseTime |-> calculateAverageResponseTime(chatMessages) ]
  /\ UNCHANGED <<chatMessages, now>>

ListMessages ==
  \E rideId \in ChatRideIds, q \in ListQueries : listMessages(rideId, q[1], q[2])

UnreadCount ==
  \E q \in CountQueries : unreadCount(q[1], q[2])

\* every handler of the chat router that the ledger of messages knows
NextLedger ==
  \/ ServeChat(SendMessage)
  \/ ServeChat(SendVoiceMessage)
  \/ ServeChat(MarkRead)
  \/ ServeChat(DeleteMessage)
  \/ ServeChat(ListMessages)
  \/ ServeChat(UnreadCount)
  \/ ServeChat(stats)
  \/ Tick

SpecLedger == Init /\ [][NextLedger]_vars

\* Date.now() and new Date() read the wall clock of the host, which an
\* adjustment of the system time sets back
ClockSetBack ==
  /\ now > Clock0
  /\ now' = now - 1
  /\ UNCHANGED <<rides, drivers, res, served, chatMessages, restVars>>

\* messages are posted at any readings of the wall clock, listed and summed up
\* in the statistics
NextConversation ==
  \/ ServeChat(SendMessage)
  \/ ServeChat(ListMessages)
  \/ ServeChat(stats)
  \/ Tick
  \/ ClockSetBack

SpecConversation == Init /\ [][NextConversation]_vars

----------------------------------------------------------------------------
(* The auth router: registration *)

\* users.find(user => user.email === email): the index of the first user with
\* that email, 0 for undefined
FindUserByEmail(us, email) ==
  IF \E i \in 1..Len(us) : us[i].email = email
  THEN CHOOSE i \in 1..Len(us) :
         us[i].email = email /\ \A j \in 1..(i - 1) : us[j].email # email
  ELSE 0

\* await bcrypt.hash(password, saltRounds): the hash is not the password
HashPassword(password) == [hashOf |-> password]

\* router.post('/register') from its first statement to await bcrypt.hash: the
\* body is validated and the email looked up; a request that passes both is
\* suspended, without an answer yet
register(email, password, name) ==
  IF ~TruthyString(email) \/ ~TruthyString(password) \/ ~TruthyString(name)
  THEN /\ res' = Response("register", 400)
       /\ UNCHANGED <<users, hashing, changing, now>>
  ELSE IF FindUserByEmail(users, Value(email)) # 0
  THEN /\ res' = Response("register", 409)
       /\ UNCHANGED <<users, hashing, changing, now>>
  ELSE /\ hashing' = Append(hashing, [ email |-> Value(email),
                                       password |-> Value(password),
                                       name |-> Value(name) ])
       /\ UNCHANGED <<users, changing, res, now>>

\* router.post('/register') after await bcrypt.hash for the k-th suspended
\* request (the hashes resolve in any order): the user is built and pushed,
\* and the request answered
registerHashed(k) ==
  LET body == hashing[k]
      newUser == [ id |-> "user_" \o ToString(now), email |-> body.email,
                   name |-> body.name,
                   password |-> HashPassword(body.password), createdAt |-> now,
                   updatedAt |-> Undefined ]
  IN /\ users' = Append(users, newUser)
     /\ hashing' = SubSeq(hashing, 1, k - 1) \o SubSeq(hashing, k + 1, Len(hashing))
     /\ res' = [ op |-> "register", code |-> 201, user |-> newUser.id ]
     /\ UNCHANGED <<changing, now>>

\* authenticateToken: the status it answers with, 0 where it calls next()
AuthenticateToken(token) ==
  IF ~IsSet(token) THEN 401
  ELSE IF ~token[1].valid THEN 403
  ELSE 0

\* users.find(u => u.id === req.user.userId): the index of the user, 0 for
\* undefined
FindUserById(us, userId) ==
  IF \E i \in 1..Len(us) : us[i].id = userId
  THEN CHOOSE i \in 1..Len(us) :
         us[i].id = userId /\ \A j \in 1..(i - 1) : us[j].id # userId
  ELSE 0

\* router.put('/profile'), behind authenticateToken
updateProfile(token, name) ==
  IF AuthenticateToken(token) # 0
  THEN /\ res' = Response("updateProfile", AuthenticateToken(token))
       /\ UNCHANGED <<users, hashing, changing, now>>
  ELSE LET i == FindUserById(users, token[1].userId) IN
       IF i = 0
       THEN /\ res' = Response("updateProfile", 404)
            /\ UNCHANGED <<users, hashing, changing, now>>
       ELSE /\ users' = [users EXCEPT
                           ![i].name = IF TruthyString(name) THEN name[1] ELSE @,
                           ![i].updatedAt = Some(now)]
            /\ res' = Response("updateProfile", 200)
            /\ UNCHANGED <<hashing, changing, now>>

\* router.put('/change-password'), behind authenticateToken, from its first
\* statement to await bcrypt.compare(currentPassword, user.password): the
\* request keeps its user and is suspended with the two arguments of the
\* comparison
changePassword(token, currentPassword, newPassword) ==
  IF AuthenticateToken(token) # 0
  THEN /\ res' = Response("changePassword", AuthenticateToken(token))
       /\ UNCHANGED <<users, hashing, changing, now>>
  ELSE LET i == FindUserById(users, token[1].userId) IN
       IF i = 0
       THEN /\ res' = Response("changePassword", 404)
            /\ UNCHANGED <<users, hashing, changing, now>>
       ELSE /\ changing' = Append(changing,
                                  [ user |-> i, pc |-> "compare",
                                    currentPassword |-> currentPassword,
                                    hash |-> users[i].password,
                                    newPassword |-> newPassword ])
            /\ UNCHANGED <<users, hashing, res, now>>

\* changing without its k-th request
WithoutChange(k) ==
  SubSeq(changing, 1, k - 1) \o SubSeq(changing, k + 1, Len(changing))

\* router.put('/change-password') after an await for the k-th suspended
\* request: after bcrypt.compare the request is answered 401 or goes on to
\* await bcrypt.hash(newPassword, saltRounds), after which the password of
\* its user is set; bcrypt rejects an argument that is no string, and the
\* catch answers 500
changePasswordResumes(k) ==
  LET call == changing[k] IN
  IF call.pc = "compare"
  THEN IF ~IsSet(call.currentPassword)
       THEN /\ res' = Response("changePassword", 500)
            /\ changing' = WithoutChange(k)
            /\ UNCHANGED <<users, hashing, now>>
       ELSE IF HashPassword(call.currentPassword[1]) # call.hash
       THEN /\ res' = Response("changePassword", 401)
            /\ changing' = WithoutChange(k)
            /\ UNCHANGED <<users, hashing, now>>
       ELSE /\ changing' = [changing EXCEPT ![k].pc = "hash"]
            /\ UNCHANGED <<users, hashing, res, now>>
  ELSE IF ~IsSet(call.newPassword)
       THEN /\ res' = Response("changePassword", 500)
            /\ changing' = WithoutChange(k)
            /\ UNCHANGED <<users, hashing, now>>
       ELSE /\ users' = [users EXCEPT
                           ![call.user].password = HashPassword(call.newPassword[1]),
                           ![call.user].updatedAt = Some(now)]
            /\ res' = Response("changePassword", 200)
            /\ changing' = WithoutChange(k)
            /\ UNCHANGED <<hashing, now>>

Register ==
  \E b \in RegisterBodies : register(b[1], b[2], b[3])

UpdateProfile ==
  \E token \in Tokens, name \in {Undefined, Some("Johnny")} :
    updateProfile(token, name)

ChangePassword ==
  \E token \in Tokens,
     b \in { <<Some("password"), Some("pw9")>>, <<Some("wrong"), Some("pw9")>>,
             <<Some("password"), Undefined>> } :
    changePassword(token, b[1], b[2])

\* one request to the auth router arrives
ServeAuth(handler) ==
  /\ served < MaxRequests
  /\ handler
  /\ served' = served + 1
  /\ UNCHANGED <<rides, drivers, chatMessages, supportVars, recorderVars>>

\* a password hash resolves and its request goes on
RegisterHashed ==
  /\ \E k \in 1..Len(hashing) : registerHashed(k)
  /\ UNCHANGED <<rides, drivers, chatMessages, served, supportVars, recorderVars>>

\* an await of a suspended change-password request resolves
ChangePasswordResumes ==
  /\ \E k \in 1..Len(changing) : changePasswordResumes(k)
  /\ UNCHANGED <<rides, drivers, chatMessages, served, supportVars, recorderVars>>

NextAuth ==
  \/ ServeAuth(Register)
  \/ ServeAuth(UpdateProfile)
  \/ ServeAuth(ChangePassword)
  \/ RegisterHashed
  \/ ChangePasswordResumes
  \/ Tick

SpecAuth == Init /\ [][NextAuth]_vars

----------------------------------------------------------------------------
(* The support router *)

\* the text is not the empty string
TruthyText(f) == IsSet(f) /\ f[1] # <<>>

\* String.prototype.toLowerCase, word by word (the words of the seed data and
\* of the requests that hold a capital letter)
LowerWord(w) ==
  CASE w \in {"Voice", "VOICE"} -> "voice"
    [] w = "The" -> "the"
    [] w = "I" -> "i"
    [] w = "Thank" -> "thank"
    [] w = "We" -> "we"
    [] w = "Sign" -> "sign"
    [] w = "A" -> "a"
    [] w = "Refund" -> "refund"
    [] w = "No" -> "no"
    [] w = "Search" -> "search"
    [] w = "Cannot" -> "cannot"
    [] w = "Empty" -> "empty"
    [] w = "Any" -> "any"
    [] w = "Resolved" -> "resolved"
    [] OTHER -> w

ToLowerCase(text) == [i \in 1..Len(text) |-> LowerWord(text[i])]

\* String.prototype.includes on texts of whole words
Includes(text, part) ==
  \E i \in 0..(Len(text) - Len(part)) :
    \A j \in 1..Len(part) : text[i + j] = part[j]

\* the text search of the search handler
MatchesSearch(ticket, searchQuery) ==
  \/ Includes(ToLowerCase(ticket.subject), searchQuery)
  \/ Includes(ToLowerCase(ticket.description), searchQuery)
  \/ \E r \in 1..Len(ticket.responses) :
       Includes(ToLowerCase(ticket.responses[r].message), searchQuery)

\* if (category) tickets = tickets.filter(ticket => ticket.category === category)
FilterByCategory(tickets, category) ==
  IF TruthyString(category)
  THEN SelectSeq(tickets, LAMBDA ticket : ticket.category = category[1])
  ELSE tickets

\* if (status) tickets = tickets.filter(ticket => ticket.status === status)
FilterByStatus(tickets, status) ==
  IF TruthyString(status)
  THEN SelectSeq(tickets, LAMBDA ticket : ticket.status = status[1])
  ELSE tickets

\* if (priority) tickets = tickets.filter(ticket => ticket.priority === priority)
FilterByPriority(tickets, priority) ==
  IF TruthyString(priority)
  THEN SelectSeq(tickets, LAMBDA ticket : ticket.priority = priority[1])
  ELSE tickets

\* const { limit = 10, offset = 0 } = req.query, each read with parseInt
TicketLimit(limit) == IF IsSet(limit) THEN limit[1] ELSE 10

\* router.post('/tickets')
createTicket(userId, subject, description, category, priority) ==
  IF ~TruthyString(userId) \/ ~TruthyText(subject) \/ ~TruthyText(description)
  THEN /\ res' = Response("createTicket", 400)
       /\ UNCHANGED <<supportTickets, now>>
  ELSE LET newTicket ==
             [ id |-> "ticket_" \o ToString(now), userId |-> userId[1],
               subject |-> subject[1], description |-> description[1],
               category |-> IF IsSet(category) THEN category[1] ELSE "general",
               priority |-> IF IsSet(priority) THEN priority[1] ELSE "medium",
               status |-> "open", createdAt |-> now, updatedAt |-> now,
               assignedTo |-> Undefined, responses |-> <<>> ]
       IN /\ supportTickets' = Append(supportTickets, newTicket)
          /\ res' = [ op |-> "createTicket", code |-> 201, ticket |-> newTicket ]
          /\ UNCHANGED now

\* supportTickets.find(t => t.id === ticketId): the index of the ticket, 0 for
\* undefined
FindTicket(tickets, ticketId) ==
  IF \E i \in 1..Len(tickets) : tickets[i].id = ticketId
  THEN CHOOSE i \in 1..Len(tickets) :
         tickets[i].id = ticketId /\ \A j \in 1..(i - 1) : tickets[j].id # ticketId
  ELSE 0

\* const validStatuses = [...]
validStatuses == {"open", "in_progress", "resolved", "closed"}

\* router.patch('/tickets/:ticketId/status')
updateTicketStatus(ticketId, status, assignedTo) ==
  LET i == FindTicket(supportTickets, ticketId) IN
  IF i = 0
  THEN /\ res' = Response("updateTicketStatus", 404)
       /\ UNCHANGED <<supportTickets, now>>
  ELSE IF ~IsSet(status) \/ status[1] \notin validStatuses
  THEN /\ res' = Response("updateTicketStatus", 400)
       /\ UNCHANGED <<supportTickets, now>>
  ELSE /\ supportTickets' =
            [supportTickets EXCEPT
               ![i].status = status[1],
               ![i].updatedAt = now,
               ![i].assignedTo = IF TruthyString(assignedTo) THEN assignedTo ELSE @]
       /\ res' = [ op |-> "updateTicketStatus", code |-> 200,
                   ticket |-> supportTickets'[i] ]
       /\ UNCHANGED now

\* router.post('/tickets/:ticketId/responses')
addResponse(ticketId, message, author, authorType) ==
  IF ~TruthyText(message) \/ ~TruthyString(author)
  THEN /\ res' = Response("addResponse", 400)
       /\ UNCHANGED <<supportTickets, now>>
  ELSE LET i == FindTicket(supportTickets, ticketId) IN
       IF i = 0
       THEN /\ res' = Response("addResponse", 404)
            /\ UNCHANGED <<supportTickets, now>>
       ELSE LET newResponse ==
                  [ id |-> "response_" \o ToString(now), message |-> message[1],
                    author |-> author[1],
                    authorType |-> IF IsSet(authorType) THEN authorType[1] ELSE "user",
                    createdAt |-> now ]
            IN /\ supportTickets' =
                    [supportTickets EXCEPT
                       ![i].responses = Append(@, newResponse),
                       ![i].updatedAt = now]
               /\ res' = [ op |-> "addResponse", code |-> 201,
                           response |-> newResponse ]
               /\ UNCHANGED now

\* router.get('/tickets/user/:userId')
userTickets(userId, query) ==
  LET filtered ==
        FilterByCategory(
          FilterByStatus(SelectSeq(supportTickets,
                                   LAMBDA ticket : ticket.userId = userId),
                         query.status),
          query.category)
      sorted == SortByCreatedAt(filtered)
  IN /\ res' = [ op |-> "userTickets", code |-> 200,
                 tickets |-> Slice(sorted, QueryOffset(query.offset),
                                   QueryOffset(query.offset) + TicketLimit(query.limit)),
                 total |-> Len(sorted) ]
     /\ UNCHANGED <<supportTickets, now>>

\* router.get('/tickets/:ticketId')
getTicket(ticketId) ==
  IF FindTicket(supportTickets, ticketId) # 0
  THEN /\ res' = [ op |-> "getTicket", code |-> 200,
                   ticket |-> supportTickets[FindTicket(supportTickets, ticketId)] ]
       /\ UNCHANGED <<supportTickets, now>>
  ELSE /\ res' = Response("getTicket", 404)
       /\ UNCHANGED <<supportTickets, now>>

\* router.get('/tickets/search')
searchTickets(query) ==
  IF ~TruthyText(query.q)
  THEN /\ res' = Response("searchTickets", 400)
       /\ UNCHANGED <<supportTickets, now>>
  ELSE LET searchQuery == ToLowerCase(query.q[1])
           filtered ==
             FilterByPriority(
               FilterByStatus(
                 FilterByCategory(
                   SelectSeq(supportTickets,
                             LAMBDA ticket : MatchesSearch(ticket, searchQuery)),
                   query.category),
                 query.status),
               query.priority)
           sorted == SortByCreatedAt(filtered)
       IN /\ res' = [ op |-> "searchTickets", code |-> 200,
                      tickets |-> Slice(sorted, QueryOffset(query.offset),
                                        QueryOffset(query.offset)
                                          + TicketLimit(query.limit)),
                      total |-> Len(sorted) ]
          /\ UNCHANGED <<supportTickets, now>>

\* the path parameters of the routes
RouteParams == {":userId", ":ticketId"}

\* the route matches the path: a parameter takes any one segment
MatchesRoute(route, path) ==
  /\ Len(route) = Len(path)
  /\ \A i \in 1..Len(route) : route[i] \in RouteParams \/ route[i] = path[i]

\* a GET request to the support router under /tickets: Express tries the
\* routes in the order in which router.get registered them, and the first
\* that matches the path answers (no handler calls next())
supportGet(path, query) ==
  IF MatchesRoute(<<"tickets", "user", ":userId">>, path)
  THEN userTickets(path[3], query)
  ELSE IF MatchesRoute(<<"tickets", ":ticketId">>, path)
  THEN getTicket(path[2])
  ELSE IF MatchesRoute(<<"tickets", "search">>, path)
  THEN searchTickets(query)
  ELSE /\ res' = Response("supportGet", 404)
       /\ UNCHANGED <<supportTickets, now>>

CreateTicket ==
  \E b \in TicketBodies : createTicket(b[1], b[2], b[3], b[4], b[5])

SupportGet ==
  \E path \in GetPaths, query \in SupportQueries : supportGet(path, query)

UpdateTicketStatus ==
  \E ticketId \in {"ticket_1", "ticket_9"},
     b \in { <<Some("resolved"), Undefined>>,
             <<Some("in_progress"), Some("support_agent_2")>>,
             <<Some("done"), Undefined>>, <<Undefined, Undefined>> } :
    updateTicketStatus(ticketId, b[1], b[2])

AddResponse ==
  \E ticketId \in {"ticket_1", "ticket_2", "ticket_9"},
     b \in { <<Some(<<"Any", "search", "news">>), Some("user_1"), Undefined>>,
             <<Some(<<"Resolved">>), Some("support_agent_1"), Some("agent")>>,
             <<Some(<<>>), Some("user_1"), Undefined>> } :
    addResponse(ticketId, b[1], b[2], b[3])

\* one request to the support router is handled
ServeSupport(handler) ==
  /\ served < MaxRequests
  /\ handler
  /\ served' = served + 1
  /\ UNCHANGED <<rides, drivers, chatMessages, authVars, recorderVars>>

NextSupport ==
  \/ ServeSupport(CreateTicket)
  \/ ServeSupport(UpdateTicketStatus)
  \/ ServeSupport(AddResponse)
  \/ ServeSupport(SupportGet)
  \/ Tick

SpecSupport == Init /\ [][NextSupport]_vars

----------------------------------------------------------------------------
(* The VoiceRecorder component (src/unnamed/part_003) *)

(***************************************************************************)
(* The component runs on the single JavaScript thread of React Native: a   *)
(* handler runs without interleaving up to its next await, and presses,    *)
(* timers and the continuations of other calls run while it is suspended.  *)
(* A function of the component reads the state values of the render that   *)
(* created it: the call of startRecording and the auto-stop timer it sets  *)
(* keep the `recording` and `permissionResponse` of the press-in, while    *)
(* timeoutRef.current is read and written in place.  A press is handled by *)
(* the handlers of the latest render.                                      *)
(***************************************************************************)

\* the state outside the component
backendVars ==
  <<rides, drivers, now, res, served, chatMessages, authVars, supportVars>>

\* the outcomes of await Audio.requestPermissionsAsync(): the two answers, and
\* a rejection
Permissions == {"granted", "denied", "rejected"}

\* if (timeoutRef.current) clearTimeout(timeoutRef.current), on the pending
\* timers
ClearTimeout(pending, ref) ==
  IF ref # NoTimer THEN {t \in pending : t.id # ref} ELSE pending

\* requestAudioPermission after its await: the answer is stored; a rejection
\* is caught and leaves the state as it is
requestAudioPermission(permission) ==
  permissionResponse' = IF permission = "rejected" THEN permissionResponse
                        ELSE permission

\* startRecording from its first statement to its first await: the call with
\* the number id reads permissionResponse and is suspended at
\* requestAudioPermission() or at Audio.setAudioModeAsync(...)
startRecording(id) ==
  starts' = starts \cup
    { [ id |-> id,
        pc |-> IF permissionResponse # "granted" THEN "permission" ELSE "audioMode",
        recording |-> recording ] }

\* a suspended call of startRecording goes on after its await has resolved
startRecordingResumes(call, permission) ==
  CASE call.pc = "permission" ->
         \* the permission of this render is still not granted: Alert, return
         /\ requestAudioPermission(permission)
         /\ starts' = starts \ {call}
         /\ UNCHANGED <<isRecording, recording, timeoutRef, timers>>
    [] call.pc = "audioMode" ->
         /\ starts' = (starts \ {call}) \cup {[call EXCEPT !.pc = "create"]}
         /\ UNCHANGED <<isRecording, recording, permissionResponse, timeoutRef, timers>>
    [] call.pc = "create" ->
         \* setRecording(newRecording); setIsRecording(true)
         /\ recording' = call.id
         /\ isRecording' = TRUE
         /\ starts' = (starts \ {call}) \cup {[call EXCEPT !.pc = "haptics"]}
         /\ UNCHANGED <<permissionResponse, timeoutRef, timers>>
    [] call.pc = "haptics" ->
         /\ starts' = (starts \ {call}) \cup {[call EXCEPT !.pc = "speak"]}
         /\ UNCHANGED <<isRecording, recording, permissionResponse, timeoutRef, timers>>
    [] call.pc = "speak" ->
         \* timeoutRef.current = setTimeout(() => stopRecording(), 5000)
         /\ timeoutRef' = call.id
         /\ timers' = timers \cup {[id |-> call.id, recording |-> call.recording]}
         /\ starts' = starts \ {call}
         /\ UNCHANGED <<isRecording, recording, permissionResponse>>

\* an await of startRecording rejects: catch (err) shows the alert
startRecordingFails(call) ==
  /\ call.pc # "permission"
  /\ starts' = starts \ {call}
  /\ UNCHANGED <<isRecording, recording, permissionResponse, timeoutRef, timers>>

\* stopRecording from its first statement to await
\* recording.stopAndUnloadAsync(), for the `recording` of its render and the
\* timers that are pending when it is called; without a recording it shows
\* the alert and returns
stopRecording(itsRecording, pending) ==
  /\ timers' = ClearTimeout(pending, timeoutRef)
  /\ timeoutRef' = NoTimer
  /\ isRecording' = FALSE
  /\ stops' = IF itsRecording # NoRecording
              THEN Append(stops, [recording |-> itsRecording, pc |-> "unload"])
              ELSE stops
  /\ stopped' = TRUE

\* stops without its k-th call
WithoutStop(k) == SubSeq(stops, 1, k - 1) \o SubSeq(stops, k + 1, Len(stops))

\* the k-th suspended call of stopRecording goes on.  After
\* stopAndUnloadAsync: with a URI processVoiceInput sets isProcessing and
\* awaits the transcription, without one the alert is shown, and a rejection
\* is caught by setIsRecording(false).  After the awaits of
\* processVoiceInput: the text is handed over, setTimeout(() => onClose(), 100)
\* is set and isProcessing cleared; a rejection is caught and isProcessing
\* cleared
stopRecordingResumes(k, outcome) ==
  IF stops[k].pc = "unload"
  THEN CASE outcome = "resolved" ->
              /\ isProcessing' = TRUE
              /\ stops' = [stops EXCEPT ![k].pc = "process"]
              /\ UNCHANGED <<isRecording, closeTimers>>
         [] outcome = "noURI" ->
              /\ stops' = WithoutStop(k)
              /\ UNCHANGED <<isRecording, isProcessing, closeTimers>>
         [] outcome = "rejected" ->
              /\ isRecording' = FALSE
              /\ stops' = WithoutStop(k)
              /\ UNCHANGED <<isProcessing, closeTimers>>
  ELSE /\ outcome # "noURI"
       /\ isProcessing' = FALSE
       /\ closeTimers' = IF outcome = "resolved" THEN closeTimers + 1 ELSE closeTimers
       /\ stops' = WithoutStop(k)
       /\ UNCHANGED isRecording

\* handleClose
handleClose ==
  /\ IF isRecording
     THEN stopRecording(recording, ClearTimeout(timers, timeoutRef))
     ELSE /\ timers' = ClearTimeout(timers, timeoutRef)
          /\ timeoutRef' = NoTimer
          /\ UNCHANGED <<isRecording, stops, stopped>>
  /\ closed' = TRUE

\* a call of requestAudioPermission by useEffect(() => {...}, []) or by the
\* permission button goes on after its await
RequestAudioPermissionResumes ==
  /\ requests > 0
  /\ \E permission \in Permissions : requestAudioPermission(permission)
  /\ requests' = requests - 1
  /\ UNCHANGED <<isRecording, recording, isProcessing, timeoutRef, timers,
                 starts, stops, pressed, closed, presses, stopped, directs,
                 closeTimers>>
  /\ UNCHANGED backendVars

\* onPress of the permission button, shown while the permission is not granted
GrantPermission ==
  /\ permissionResponse # "granted" /\ ~closed
  /\ requests < MaxPending
  /\ requests' = requests + 1
  /\ UNCHANGED <<isRecording, recording, permissionResponse, isProcessing,
                 timeoutRef, timers, starts, stops, pressed, closed, presses,
                 stopped, directs, closeTimers>>
  /\ UNCHANGED backendVars

\* onPressIn of the record button (disabled={isProcessing})
PressIn ==
  /\ ~pressed /\ ~closed /\ ~isProcessing
  /\ presses < MaxPresses
  /\ startRecording(presses + 1)
  /\ presses' = presses + 1
  /\ pressed' = TRUE
  /\ stopped' = FALSE
  /\ UNCHANGED <<isRecording, recording, permissionResponse, isProcessing,
                 timeoutRef, timers, stops, closed, requests, directs,
                 closeTimers>>
  /\ UNCHANGED backendVars

\* onPressOut of the record button
PressOut ==
  /\ pressed /\ ~closed
  /\ stopRecording(recording, timers)
  /\ pressed' = FALSE
  /\ UNCHANGED <<recording, permissionResponse, isProcessing, starts, closed,
                 presses, requests, directs, closeTimers>>
  /\ UNCHANGED backendVars

StartRecordingResumes ==
  /\ \E call \in starts, permission \in Permissions :
       startRecordingResumes(call, permission)
  /\ UNCHANGED <<isProcessing, stops, pressed, closed, presses, stopped,
                 requests, directs, closeTimers>>
  /\ UNCHANGED backendVars

StartRecordingFails ==
  /\ \E call \in starts : startRecordingFails(call)
  /\ UNCHANGED <<isProcessing, stops, pressed, closed, presses, stopped,
                 requests, directs, closeTimers>>
  /\ UNCHANGED backendVars

\* an auto-stop timer fires: it calls the stopRecording of its render
TimerFires ==
  /\ \E t \in timers : stopRecording(t.recording, timers \ {t})
  /\ UNCHANGED <<recording, permissionResponse, isProcessing, starts, pressed,
                 closed, presses, requests, directs, closeTimers>>
  /\ UNCHANGED backendVars

StopRecordingResumes ==
  /\ \E k \in 1..Len(stops), outcome \in {"resolved", "noURI", "rejected"} :
       stopRecordingResumes(k, outcome)
  /\ UNCHANGED <<recording, permissionResponse, timeoutRef, timers, starts,
                 pressed, closed, presses, stopped, requests, directs>>
  /\ UNCHANGED backendVars

\* a timer setTimeout(() => onClose(), 100) of processVoiceInput fires
CloseTimerFires ==
  /\ closeTimers > 0
  /\ closeTimers' = closeTimers - 1
  /\ closed' = TRUE
  /\ UNCHANGED <<isRecording, recording, permissionResponse, isProcessing,
                 timeoutRef, timers, starts, stops, pressed, presses, stopped,
                 requests, directs>>
  /\ UNCHANGED backendVars

\* startDirectSpeechRecognition, the onPress of the direct button
\* (disabled={isProcessing}), from its first statement to its first await
startDirectSpeechRecognition ==
  /\ ~isProcessing /\ ~closed
  /\ directs < MaxPending
  /\ isProcessing' = TRUE
  /\ directs' = directs + 1
  /\ UNCHANGED <<isRecording, recording, permissionResponse, timeoutRef, timers,
                 starts, stops, pressed, closed, presses, stopped, requests,
                 closeTimers>>
  /\ UNCHANGED backendVars

\* a suspended call of startDirectSpeechRecognition goes on after its awaits:
\* the text is handed over and onClose() called, or the rejection is caught;
\* finally isProcessing is cleared
DirectSpeechResumes ==
  /\ directs > 0
  /\ directs' = directs - 1
  /\ isProcessing' = FALSE
  /\ \E resolved \in BOOLEAN : closed' = (closed \/ resolved)
  /\ UNCHANGED <<isRecording, recording, permissionResponse, timeoutRef, timers,
                 starts, stops, pressed, presses, stopped, requests, closeTimers>>
  /\ UNCHANGED backendVars

\* the close button of the recorder is pressed
HandleClose ==
  /\ ~closed
  /\ handleClose
  /\ UNCHANGED <<recording, permissionResponse, isProcessing, starts, pressed,
                 presses, requests, directs, closeTimers>>
  /\ UNCHANGED backendVars

NextRecorder ==
  \/ RequestAudioPermissionResumes
  \/ GrantPermission
  \/ PressIn
  \/ PressOut
  \/ StartRecordingResumes
  \/ StartRecordingFails
  \/ TimerFires
  \/ StopRecordingResumes
  \/ CloseTimerFires
  \/ startDirectSpeechRecognition
  \/ DirectSpeechResumes
  \/ HandleClose

SpecRecorder == Init /\ [][NextRecorder]_vars

----------------------------------------------------------------------------
(* Vocabulary of the properties *)

\* the rides of which driverId is the driver and that are in an active status
ActiveRidesOf(driverId) ==
  {i \in 1..Len(rides) :
     rides[i].driverId = driverId /\ rides[i].status \in ActiveStatuses}

\* the rides created by book (the others are the seed data)
BookedRides == (Len(SeedRides) + 1)..Len(rides)

\* accessibilityFeatures of the driver with this id
FeaturesOf(driverId) == drivers[FindDriver(drivers, driverId)].accessibilityFeatures

\* the transitions of the ride state machine
LegalTransition(from, to) ==
  \/ from \in {"requested", "assigned"} /\ to = "in_progress"
  \/ from = "in_progress" /\ to = "completed"
  \/ from \in ActiveStatuses /\ to = "cancelled"

\* this step appended a ride
RideBooked == Len(rides') = Len(rides) + 1

\* the book requests of either specification
BookInputs == BookBodies(FareInputs)

\* the book request b carries all required fields
HasRequiredFields(b) ==
  /\ b.passengerId # Undefined
  /\ b.pickupLocation # Undefined
  /\ b.destination # Undefined

\* the available drivers that have at least one of the required tags
CapableDrivers(specialRequirements) ==
  {k \in 1..Len(drivers) :
     /\ drivers[k].isAvailable
     /\ drivers[k].accessibilityFeatures \cap specialRequirements # {}}

\* the rides of rs that carry a rating and have this driver
RatedRidesOf(rs, driverId) ==
  {i \in 1..Len(rs) : rs[i].driverId = driverId /\ IsSet(rs[i].rating)}

\* the sum of the ratings of the first n rides of rs that have this driver
RECURSIVE RatingTotalUpTo(_, _, _)
RatingTotalUpTo(rs, driverId, n) ==
  IF n = 0 THEN 0
  ELSE RatingTotalUpTo(rs, driverId, n - 1)
         + (IF n \in RatedRidesOf(rs, driverId) THEN rs[n].rating[1] ELSE 0)

\* the fraction q is the arithmetic mean of count > 0 values that add up to total
IsMean(q, total, count) ==
  /\ count > 0
  /\ q.den # 0
  /\ q.num * count = total * q.den

\* the messages of the ride rideId, as indices of the array
RideIndices(ms, rideId) == {i \in 1..Len(ms) : ms[i].rideId = rideId}

\* the place of the message j among the messages of its ride when they are put
\* in the order of their timestamps, messages of one timestamp in the order
\* of their insertion
Rank(ms, rideId, j) ==
  1 + Cardinality({k \in RideIndices(ms, rideId) :
                     \/ ms[k].timestamp < ms[j].timestamp
                     \/ (ms[k].timestamp = ms[j].timestamp /\ k < j)})

\* the number of places of the window [offset, offset + limit) that n
\* messages fill
WindowSize(n, limit, offset) ==
  IF offset >= n THEN 0
  ELSE IF offset + limit >= n THEN n - offset
  ELSE limit

\* result is the window [offset, offset + limit) of the messages of the ride
\* in the order of Rank
IsWindow(result, ms, rideId, limit, offset) ==
  /\ Len(result) = WindowSize(Cardinality(RideIndices(ms, rideId)), limit, offset)
  /\ \A p \in 1..Len(result) :
       \E j \in RideIndices(ms, rideId) :
         Rank(ms, rideId, j) = offset + p /\ result[p] = ms[j]

\* the pairs <<j, k>> of messages of one ride where k follows j at once in
\* the order of Rank and has another sender
ResponsePairs(ms) ==
  {pr \in (1..Len(ms)) \X (1..Len(ms)) :
     /\ ms[pr[1]].rideId = ms[pr[2]].rideId
     /\ Rank(ms, ms[pr[2]].rideId, pr[2]) = Rank(ms, ms[pr[1]].rideId, pr[1]) + 1
     /\ ms[pr[1]].senderId # ms[pr[2]].senderId}

\* the sum of the time gaps of the pairs, in milliseconds
RECURSIVE GapSum(_, _)
GapSum(ms, pairs) ==
  IF pairs = {} THEN 0
  ELSE LET pr == CHOOSE x \in pairs : TRUE
       IN (ms[pr[2]].timestamp - ms[pr[1]].timestamp) + GapSum(ms, pairs \ {pr})

\* the number of milliseconds of a minute
MinuteMs == 60000

\* m is total / count milliseconds in minutes, rounded to the nearest whole
\* minute, a half going up
IsRoundedMinutes(m, total, count) ==
  /\ 2 * count * MinuteMs * m - count * MinuteMs <= 2 * total
  /\ 2 * total < 2 * count * MinuteMs * m + count * MinuteMs

\* the distance of the driver k from the origin <<lat, lng>>, in millimetres
DistanceOf(k, lat, lng) ==
  calculateDistance(lat, lng, drivers[k].location.latitude,
                    drivers[k].location.longitude)

\* the drivers that are available and at most radius metres from the origin
AvailableWithin(lat, lng, radius) ==
  {k \in 1..Len(drivers) :
     drivers[k].isAvailable /\ DistanceOf(k, lat, lng) <= radius * 1000}

\* the ride of two states is the same ride: id, passenger, driver and fare
SameRide(a, b) ==
  /\ a.id = b.id
  /\ a.passengerId = b.passengerId
  /\ a.driverId = b.driverId
  /\ a.fare = b.fare

\* driver has one of the required features
Offers(driver, specialRequirements) ==
  driver.accessibilityFeatures \cap specialRequirements # {}

\* the identities <<userId, userType>> that read messages
Readers == {<<b[1][1], b[2][1]>> : b \in {x \in ReadBodies : IsSet(x[1]) /\ IsSet(x[2])}}

----------------------------------------------------------------------------
(* C1..C10: ride lifecycle and matching *)

\* C1: in every reachable state, a driver has isAvailable = FALSE if and only
\* if it is the driver of some ride that is requested, assigned or in_progress.
\* The seed data already break it: driver_2 drives the in_progress ride_2 and
\* is available.
C1_AvailabilityReflectsRides ==
  \A k \in 1..Len(drivers) :
    (drivers[k].isAvailable = FALSE) <=> (ActiveRidesOf(drivers[k].id) # {})

\* C2: no driver is the driver of two different active rides at the same time.
C2_NoDoubleBooking ==
  \A i, j \in 1..Len(rides) :
    (/\ i # j
     /\ rides[i].status \in ActiveStatuses
     /\ rides[j].status \in ActiveStatuses)
    => rides[i].driverId # rides[j].driverId

\* C3: whenever a ride's status becomes completed or cancelled, its driver is
\* available in the resulting state.
C3_TerminalReleasesDriver ==
  [][\A i \in 1..Len(rides) :
       (rides[i].status \notin TerminalStatuses
          /\ rides'[i].status \in TerminalStatuses)
       => drivers'[FindDriver(drivers, rides[i].driverId)].isAvailable]_vars

\* C4: a ride's status changes only along the legal transitions and is always
\* one of the five defined statuses.
C4_OnlyLegalTransitions ==
  [][\A i \in 1..Len(rides) :
       /\ rides'[i].status \in Statuses
       /\ rides'[i].status # rides[i].status
            => LegalTransition(rides[i].status, rides'[i].status)]_vars

\* C5: once a ride is completed or cancelled its status never changes again.
C5_TerminalIsFinal ==
  [][\A i \in 1..Len(rides) :
       rides[i].status \in TerminalStatuses
       => rides'[i].status = rides[i].status]_vars

\* C6: under every interleaving of book requests, the driver of a successful
\* booking was available when chosen, is unavailable when the handler has
\* returned, and is not the driver of any earlier booking.
C6_BookingIsAtomic ==
  [][RideBooked =>
       LET newRide == rides'[Len(rides')]
           d == FindDriver(drivers, newRide.driverId)
       IN /\ d # 0
          /\ drivers[d].isAvailable
          /\ ~drivers'[d].isAvailable
          /\ \A i \in BookedRides : rides[i].driverId # newRide.driverId]_vars

\* two bookings have succeeded and hold the two drivers
C6_Witness ==
  /\ Len(rides) = Len(SeedRides) + 2
  /\ rides[Len(rides)].driverId # rides[Len(rides) - 1].driverId
  /\ \A k \in 1..Len(drivers) : ~drivers[k].isAvailable
  /\ res = Response("book", 201)

\* C7: a book request that no available driver matches is answered 404 (no
\* available drivers), also when other drivers are available; no ride is
\* stored and no driver changes.
C7_NoMatchFails ==
  [][res'.op = "book" => \A b \in BookInputs :
       (HasRequiredFields(b) /\ CapableDrivers(b.specialRequirements) = {}
          /\ BookStep(b))
       => (res' = Response("book", 404) /\ rides' = rides /\ drivers' = drivers)]_vars

\* a booking was refused for want of a matching driver while driver_2 was
\* available (driver_1 holds a booked ride)
C7_Witness ==
  /\ res = Response("book", 404)
  /\ ~drivers[1].isAvailable
  /\ drivers[2].isAvailable
  /\ BookedRides # {}

\* C8: a book request without passengerId, pickupLocation or destination is
\* answered 400 and leaves rides and drivers as they were.
C8_MissingFieldsFail ==
  [][res'.op = "book" => \A b \in BookInputs :
       (~HasRequiredFields(b) /\ BookStep(b))
       => (res' = Response("book", 400) /\ rides' = rides /\ drivers' = drivers)]_vars

\* a booking was refused for a missing field while a driver was available
C8_Witness ==
  /\ res = Response("book", 400)
  /\ \E k \in 1..Len(drivers) : drivers[k].isAvailable

\* C9: a booking that requires the single tag t, made while some available
\* driver has t, creates a ride whose driver has t.
C9_SingleTagMatched ==
  [][res'.op = "book" => \A b \in BookInputs : \A t \in Tags :
       (/\ b.specialRequirements = {t}
        /\ HasRequiredFields(b)
        /\ BookStep(b)
        /\ \E k \in 1..Len(drivers) :
             drivers[k].isAvailable /\ t \in drivers[k].accessibilityFeatures)
       => (RideBooked /\ t \in FeaturesOf(rides'[Len(rides')].driverId))]_vars

\* a ride requiring sign_language_support alone was booked with a driver that
\* has it, while another driver, who lacks it, was free as well
C9_Witness ==
  /\ res = Response("book", 201)
  /\ rides[Len(rides)].specialRequirements = {"sign_language_support"}
  /\ "sign_language_support" \in FeaturesOf(rides[Len(rides)].driverId)
  /\ \E k \in 1..Len(drivers) :
       /\ drivers[k].isAvailable
       /\ "sign_language_support" \notin drivers[k].accessibilityFeatures

\* C10: the specialRequirements of every ride created by book are a subset of
\* the accessibilityFeatures of its driver.
C10_RequirementsCovered ==
  \A i \in BookedRides :
    rides[i].specialRequirements \subseteq FeaturesOf(rides[i].driverId)

----------------------------------------------------------------------------
(* C11..C20: completion, cancellation, rating, ids, fares, chat senders *)

\* C11: a successful status update to completed stamps the ride's completedAt,
\* makes the ride's driver available and leaves the availability of every
\* other driver as it was.
C11_CompletedReleasesDriver ==
  [][res'.op = "updateStatus" =>
       \A rideId \in RideIds, location \in LocationInputs :
         (FindRide(rides, rideId) # 0 /\ updateStatus(rideId, "completed", location))
         => LET r == FindRide(rides, rideId)
                d == FindDriver(drivers, rides[r].driverId)
            IN /\ res' = Response("updateStatus", 200)
               /\ rides'[r].status = "completed"
               /\ rides'[r].completedAt = Some(now)
               /\ d # 0
               /\ drivers'[d].isAvailable
               /\ \A k \in 1..Len(drivers) :
                    k # d => drivers'[k].isAvailable = drivers[k].isAvailable]_vars

\* a booked ride was completed: its driver is available again while the other
\* driver, who holds the other booked ride, is still unavailable
C11_Witness ==
  /\ res = Response("updateStatus", 200)
  /\ \E i, j \in BookedRides :
       /\ rides[i].status = "completed"
       /\ IsSet(rides[i].completedAt)
       /\ drivers[FindDriver(drivers, rides[i].driverId)].isAvailable
       /\ rides[j].status = "requested"
       /\ rides[j].driverId # rides[i].driverId
       /\ ~drivers[FindDriver(drivers, rides[j].driverId)].isAvailable

\* C12: cancel on a ride that is neither completed nor cancelled sets its
\* status to cancelled, stamps cancelledAt, stores the reason and makes the
\* ride's driver available.
C12_CancelReleasesDriver ==
  [][res'.op = "cancel" =>
       \A rideId \in RideIds, reason \in Reasons :
         (/\ FindRide(rides, rideId) # 0
          /\ rides[FindRide(rides, rideId)].status \notin TerminalStatuses
          /\ cancel(rideId, reason))
         => LET r == FindRide(rides, rideId)
                d == FindDriver(drivers, rides[r].driverId)
            IN /\ res' = Response("cancel", 200)
               /\ rides'[r].status = "cancelled"
               /\ rides'[r].cancelledAt = Some(now)
               /\ rides'[r].cancellationReason = reason
               /\ d # 0
               /\ drivers'[d].isAvailable]_vars

\* a booked ride was cancelled with a reason and its driver is free again
C12_Witness ==
  /\ res = Response("cancel", 200)
  /\ \E i \in BookedRides :
       /\ rides[i].status = "cancelled"
       /\ IsSet(rides[i].cancelledAt)
       /\ IsSet(rides[i].cancellationReason)
       /\ drivers[FindDriver(drivers, rides[i].driverId)].isAvailable

\* C13: cancel on a completed or cancelled ride is answered 400 and leaves
\* every ride and every driver as they were; so does a second cancel of the
\* same ride.
C13_CancelTerminalFails ==
  [][res'.op = "cancel" =>
       \A rideId \in RideIds, reason \in Reasons :
         (/\ FindRide(rides, rideId) # 0
          /\ rides[FindRide(rides, rideId)].status \in TerminalStatuses
          /\ cancel(rideId, reason))
         => (res' = Response("cancel", 400) /\ rides' = rides /\ drivers' = drivers)]_vars

\* a cancel was refused while a cancelled ride, stamped and with its reason,
\* is stored
C13_Witness ==
  /\ res = Response("cancel", 400)
  /\ \E i \in 1..Len(rides) :
       /\ rides[i].status = "cancelled"
       /\ IsSet(rides[i].cancelledAt)
       /\ IsSet(rides[i].cancellationReason)

\* C14: rate is refused when the rating is missing, below 1 or above 5, when
\* the ride does not exist and when the ride is not completed; a refused rate
\* leaves every ride and every driver as they were.
C14_FailedRateChangesNothing ==
  [][res'.op = "rate" =>
       \A rideId \in RideIds, b \in RateBodies :
         (/\ \/ b[1] = Undefined
             \/ b[1][1] < 1
             \/ b[1][1] > 5
             \/ FindRide(rides, rideId) = 0
             \/ rides[FindRide(rides, rideId)].status # "completed"
          /\ rate(rideId, b[1], b[2]))
         => (res'.code \in {400, 404} /\ rides' = rides /\ drivers' = drivers)]_vars

\* a rate was refused while a rated ride and a ride that is not completed are
\* stored
C14_Witness ==
  /\ res = Response("rate", 400)
  /\ \E i, j \in 1..Len(rides) :
       /\ IsSet(rides[i].rating)
       /\ rides[j].status # "completed"

\* C15: after a successful rate the rated ride carries the new rating and
\* the rating of its driver is the arithmetic mean of the ratings of all
\* rides of that driver that carry a rating.
C15_DriverRatingIsMean ==
  [][res' = Response("rate", 200) =>
       \A rideId \in RideIds, b \in RateBodies :
         rate(rideId, b[1], b[2])
         => LET r == FindRide(rides, rideId)
                d == FindDriver(drivers, rides[r].driverId)
            IN /\ rides'[r].rating = b[1]
               /\ rides'[r].feedback = b[2]
               /\ d # 0
               /\ IsMean(drivers'[d].rating,
                         RatingTotalUpTo(rides', drivers[d].id, Len(rides')),
                         Cardinality(RatedRidesOf(rides', drivers[d].id)))]_vars

\* a driver has two rated rides, rated 4 and 5, and the rating 9/2
C15_Witness ==
  /\ res = Response("rate", 200)
  /\ \E k \in 1..Len(drivers) : \E i, j \in 1..Len(rides) :
       /\ rides[i].driverId = drivers[k].id
       /\ rides[j].driverId = drivers[k].id
       /\ rides[i].rating = Some(4)
       /\ rides[j].rating = Some(5)
       /\ Cardinality(RatedRidesOf(rides, drivers[k].id)) = 2
       /\ drivers[k].rating = Fraction(9, 2)

\* C16: in every reachable state every ride that carries a rating has the
\* status completed.
C16_RatedRidesAreCompleted ==
  \A i \in 1..Len(rides) :
    IsSet(rides[i].rating) => rides[i].status = "completed"

\* C17: in every reachable state every completed or cancelled ride has
\* exactly one of completedAt and cancelledAt set.
C17_OneTerminalTimestamp ==
  \A i \in 1..Len(rides) :
    rides[i].status \in TerminalStatuses
    => (IsSet(rides[i].completedAt) # IsSet(rides[i].cancelledAt))

\* C18: after any sequence of bookings, at any clock readings, no two stored
\* rides have the same id.
C18_RideIdsUnique ==
  \A i, j \in 1..Len(rides) : i # j => rides[i].id # rides[j].id

\* C19: every stored ride has a fare that is not negative, whatever fare
\* and estimatedFare the accepted book request carried.
C19_FareNotNegative ==
  \A i \in 1..Len(rides) : rides[i].fare >= 0

\* C20: in every reachable state every stored chat message has the sender
\* type driver or passenger, whether a text message post or a voice message
\* post created it.
C20_SenderTypeValid ==
  \A i \in 1..Len(chatMessages) :
    chatMessages[i].senderType \in {"driver", "passenger"}

----------------------------------------------------------------------------
(* C21..C30: the chat ledger, nearby drivers, assignment order, frames *)

\* C21: chat messages are append-only. Apart from the moderation delete no
\* request (post, voice post, mark as read, list, unread count, statistics)
\* removes a stored message, and of a stored message no field but isRead
\* changes.
C21_MessagesAppendOnly ==
  [][res'.op # "deleteMessage" =>
       /\ Len(chatMessages') >= Len(chatMessages)
       /\ \A i \in 1..Len(chatMessages) :
            [chatMessages'[i] EXCEPT !.isRead = chatMessages[i].isRead]
              = chatMessages[i]]_vars

\* messages were marked as read (the third seed message among them) while a
\* posted message is stored behind the seed messages
C21_Witness ==
  /\ res = Response("markRead", 200)
  /\ Len(chatMessages) > Len(SeedMessages)
  /\ \A i \in 1..Len(SeedMessages) :
       chatMessages[i] = [SeedMessages[i] EXCEPT !.isRead = TRUE]

\* C22: markRead(rideId, userId, userType) sets isRead on every message of
\* that ride whose senderId differs from userId or whose senderType differs
\* from userType, and changes isRead on no other message.
C22_MarkReadMarksOthers ==
  [][res' = Response("markRead", 200) =>
       \A rideId \in ChatRideIds, b \in ReadBodies :
         (TruthyString(b[1]) /\ TruthyString(b[2]) /\ markRead(rideId, b[1], b[2]))
         => \A i \in 1..Len(chatMessages) :
              IF /\ chatMessages[i].rideId = rideId
                 /\ \/ chatMessages[i].senderId # b[1][1]
                    \/ chatMessages[i].senderType # b[2][1]
              THEN chatMessages'[i].isRead
              ELSE chatMessages'[i].isRead = chatMessages[i].isRead]_vars

\* C23: unreadCount(userId, userType) is the number of stored messages, of
\* all rides, that are not read and were not authored by the identity
\* (userId, userType).
C23_UnreadCountOfOthers ==
  [][(res'.op = "unreadCount" /\ res'.code = 200) =>
       \A q \in CountQueries :
         (TruthyString(q[2]) /\ unreadCount(q[1], q[2]))
         => res'.unreadCount =
              Cardinality({i \in 1..Len(chatMessages) :
                             /\ ~chatMessages[i].isRead
                             /\ ~(/\ chatMessages[i].senderId = q[1]
                                  /\ chatMessages[i].senderType = q[2][1])})]_vars

\* C24 as stated: listMessages(rideId, limit, offset) answers the window
\* [offset, offset + limit) of the messages of the ride in strictly ascending
\* order of the timestamps, and as total the number of all messages of the
\* ride.
C24_ListStrictlyAscending ==
  [][res'.op = "listMessages" =>
       \A rideId \in ChatRideIds, q \in ListQueries :
         listMessages(rideId, q[1], q[2])
         => /\ IsWindow(res'.messages, chatMessages, rideId, res'.limit, res'.offset)
            /\ res'.total = Cardinality(RideIndices(chatMessages, rideId))
            /\ \A p \in 1..(Len(res'.messages) - 1) :
                 res'.messages[p].timestamp < res'.messages[p + 1].timestamp]_vars

\* C24 amended: the window is taken from the messages of the ride in
\* ascending order of the timestamps, whatever the order of their insertion;
\* messages of one timestamp stay in the order of their insertion (the order
\* is not strict); total is the number of all messages of the ride.
C24_ListAscendingWindow ==
  [][res'.op = "listMessages" =>
       \A rideId \in ChatRideIds, q \in ListQueries :
         listMessages(rideId, q[1], q[2])
         => /\ IsWindow(res'.messages, chatMessages, rideId, res'.limit, res'.offset)
            /\ res'.total = Cardinality(RideIndices(chatMessages, rideId))
            /\ \A p \in 1..(Len(res'.messages) - 1) :
                 res'.messages[p].timestamp <= res'.messages[p + 1].timestamp]_vars

\* a list holds two messages in the order of their timestamps that were
\* inserted in the other order
C24_Witness ==
  /\ res.op = "listMessages"
  /\ \E p, q \in 1..Len(res.messages) : \E i, j \in 1..Len(chatMessages) :
       /\ p < q /\ i < j
       /\ chatMessages[i] = res.messages[q]
       /\ chatMessages[j] = res.messages[p]
       /\ res.messages[p].timestamp < res.messages[q].timestamp

\* C30 as stated: averageResponseTime is the sum, over the messages of every
\* ride in the order of their timestamps, of the time gaps between
\* consecutive messages of different senders, divided by the number of these
\* gaps, in minutes; it is 0 where there is no such gap.
C30_AverageIsExactQuotient ==
  [][(res'.op = "stats" /\ stats) =>
       LET pairs == ResponsePairs(chatMessages) IN
       IF pairs = {} THEN res'.averageResponseTime = 0
       ELSE res'.averageResponseTime * Cardinality(pairs) * MinuteMs
              = GapSum(chatMessages, pairs)]_vars

\* C30 amended: averageResponseTime is that quotient rounded to the nearest
\* whole minute (a half goes up), and 0 where there is no such gap.
C30_AverageIsRoundedQuotient ==
  [][(res'.op = "stats" /\ stats) =>
       LET pairs == ResponsePairs(chatMessages) IN
       IF pairs = {} THEN res'.averageResponseTime = 0
       ELSE IsRoundedMinutes(res'.averageResponseTime,
                             GapSum(chatMessages, pairs), Cardinality(pairs))]_vars

\* the statistics were asked for with three gaps between messages of different
\* senders, whose mean of a little over ten minutes is answered as 10
C30_Witness ==
  /\ res.op = "stats"
  /\ Cardinality(ResponsePairs(chatMessages)) = 3
  /\ GapSum(chatMessages, ResponsePairs(chatMessages)) > 30 * MinuteMs
  /\ res.averageResponseTime = 10

\* C25: nearby(origin, radius) answers exactly the drivers that are available
\* and at most radius from the origin, each once, with their distance, in the
\* order of non-decreasing distance.
C25_NearbyAvailableWithinRadius ==
  [][(res'.op = "nearby" /\ res'.code = 200) =>
       \A q \in NearbyQueries :
         (IsSet(q[1]) /\ IsSet(q[2]) /\ nearby(q[1], q[2], q[3]))
         => LET radius == IF IsSet(q[3]) THEN q[3][1] ELSE 5000
                expected == AvailableWithin(q[1][1], q[2][1], radius)
                found == res'.drivers
            IN /\ Len(found) = Cardinality(expected)
               /\ res'.count = Cardinality(expected)
               /\ \A k \in expected : \E p \in 1..Len(found) :
                    /\ found[p].id = drivers[k].id
                    /\ found[p].distance = DistanceOf(k, q[1][1], q[2][1])
               /\ \A p \in 1..Len(found) : \E k \in expected :
                    found[p].id = drivers[k].id
               /\ \A p \in 1..(Len(found) - 1) :
                    found[p].distance <= found[p + 1].distance]_vars

\* both drivers are answered, driver_2 before driver_1, after driver_1 was
\* moved by a status update
C25_Witness ==
  /\ res.op = "nearby" /\ res.code = 200
  /\ Len(res.drivers) = 2
  /\ res.drivers[1].id = "driver_2"
  /\ res.drivers[1].distance < res.drivers[2].distance
  /\ drivers[1].location.latitude = 407000

\* C26: book assigns the first driver in the order of the registry that is
\* available and matches the requirements, whatever the locations and the
\* ratings of the drivers; a later driver is assigned only if every earlier
\* driver is unavailable or does not match.
C26_FirstMatchAssigned ==
  [][(res' = Response("book", 201) /\ Len(rides') = Len(rides) + 1) =>
       LET newRide == rides'[Len(rides')] IN
       \E d \in 1..Len(drivers) :
         /\ drivers[d].id = newRide.driverId
         /\ drivers[d].isAvailable
         /\ Offers(drivers[d], newRide.specialRequirements)
         /\ \A k \in 1..(d - 1) :
              \/ ~drivers[k].isAvailable
              \/ ~Offers(drivers[k], newRide.specialRequirements)]_vars

\* a booking that both drivers match went to driver_1, who is rated below
\* driver_2 and was moved, while driver_2 is still available
C26_Witness ==
  /\ res = Response("book", 201)
  /\ rides[Len(rides)].driverId = "driver_1"
  /\ rides[Len(rides)].specialRequirements = {"voice_guidance"}
  /\ drivers[1].rating = Fraction(4, 1)
  /\ drivers[1].location.latitude = 407000
  /\ drivers[2].isAvailable

\* C27: no step removes a stored ride or changes its id, passengerId,
\* driverId or fare (status update, cancel, rate, status query, history and
\* nearby among the steps).
C27_RidesKeepIdentity ==
  [][/\ Len(rides') >= Len(rides)
     /\ \A i \in 1..Len(rides) : SameRide(rides'[i], rides[i])]_vars

\* a ride was rated while a booked ride is stored as cancelled
C27_Witness ==
  /\ res = Response("rate", 200)
  /\ Len(rides) > Len(SeedRides)
  /\ rides[Len(rides)].status = "cancelled"
  /\ \E i \in 1..Len(rides) : IsSet(rides[i].rating)

\* C28: a status update with a location replaces the location (and its
\* lastUpdated) of exactly the driver of that ride; a status update without a
\* location and every other request leave the location of every driver as it
\* was.
C28_LocationOfAssignedDriverOnly ==
  [][IF res' = Response("updateStatus", 200)
     THEN \A rideId \in RideIds, status \in {"in_progress", "completed"},
             location \in LocationInputs :
            (FindRide(rides, rideId) # 0 /\ updateStatus(rideId, status, location))
            => \A k \in 1..Len(drivers) :
                 drivers'[k].location =
                   IF /\ IsSet(location)
                      /\ drivers[k].id = rides[FindRide(rides, rideId)].driverId
                   THEN [ latitude |-> location[1].latitude,
                          longitude |-> location[1].longitude,
                          lastUpdated |-> now ]
                   ELSE drivers[k].location
     ELSE \A k \in 1..Len(drivers) : drivers'[k].location = drivers[k].location]_vars

\* the ride of driver_2 was updated with a location at a later clock reading:
\* driver_2 is at that location, driver_1 where the seed data put it
C28_Witness ==
  /\ res = Response("updateStatus", 200)
  /\ drivers[2].location =
       [latitude |-> 407000, longitude |-> -740000, lastUpdated |-> Clock0 + 1]
  /\ drivers[1].location = SeedLocation1

\* C29: a nearby query leaves the rides and the drivers as they were; the
\* distance is not stored in the drivers.
C29_NearbyReadOnly ==
  [][res'.op = "nearby" =>
       /\ rides' = rides
       /\ drivers' = drivers
       /\ \A k \in 1..Len(drivers') : "distance" \notin DOMAIN drivers'[k]]_vars

\* a nearby query answered one driver while the other one is unavailable
C29_Witness ==
  /\ res.op = "nearby" /\ res.code = 200
  /\ Len(res.drivers) = 1
  /\ \E k \in 1..Len(drivers) : ~drivers[k].isAvailable

----------------------------------------------------------------------------
(* C31..C37: empty requirements, read state, registration, recorder, *)
(* ticket search, ride history                                        *)

\* C31: a book request with all required fields and no special requirements
\* (the default of an omitted field) is answered 404, no available driver, in
\* every state, and stores no ride and takes no driver.
C31_NoRequirementsNoDriver ==
  [][res'.op = "book" => \A b \in BookInputs :
       (HasRequiredFields(b) /\ b.specialRequirements = {} /\ BookStep(b))
       => (res' = Response("book", 404) /\ rides' = rides /\ drivers' = drivers)]_vars

\* a booking was refused for want of a driver while every driver is available
\* and no ride was booked
C31_Witness ==
  /\ res = Response("book", 404)
  /\ \A k \in 1..Len(drivers) : drivers[k].isAvailable
  /\ rides = SeedRides

\* C32: right after markRead(rideId, userId, userType) the unread count of
\* (userId, userType) counts no message of that ride; the unread count of an
\* identity is raised only by a newly posted message.
C32_MarkReadClearsUnreadCount ==
  [][/\ res' = Response("markRead", 200) =>
          \A rideId \in ChatRideIds, b \in ReadBodies :
            (TruthyString(b[1]) /\ TruthyString(b[2]) /\ markRead(rideId, b[1], b[2]))
            => \A i \in Unread(chatMessages', b[1][1], b[2][1]) :
                 chatMessages'[i].rideId # rideId
     /\ \A reader \in Readers :
          Cardinality(Unread(chatMessages', reader[1], reader[2]))
            > Cardinality(Unread(chatMessages, reader[1], reader[2]))
          => /\ res'.op \in {"sendMessage", "sendVoiceMessage"}
             /\ res'.code = 201
             /\ Len(chatMessages') = Len(chatMessages) + 1]_vars

\* the third seed message was marked as read for the passenger of ride_1 while
\* a message of driver_1 in another ride is unread
C32_Witness ==
  /\ res = Response("markRead", 200)
  /\ chatMessages[3] = [SeedMessages[3] EXCEPT !.isRead = TRUE]
  /\ \E i \in 1..Len(chatMessages) :
       /\ chatMessages[i].rideId = 2
       /\ chatMessages[i].senderId = "driver_1"
       /\ ~chatMessages[i].isRead

\* C33: a posted message is stored with isRead = false, and a message that
\* is read is never unread again (the moderation delete takes messages away
\* and leaves the others as they are).
C33_IsReadMonotone ==
  [][IF res'.op = "deleteMessage"
     THEN \A j \in 1..Len(chatMessages') :
            \E i \in 1..Len(chatMessages) : chatMessages'[j] = chatMessages[i]
     ELSE /\ Len(chatMessages') >= Len(chatMessages)
          /\ \A i \in 1..Len(chatMessages) :
               chatMessages[i].isRead => chatMessages'[i].isRead
          /\ \A j \in (Len(chatMessages) + 1)..Len(chatMessages') :
               ~chatMessages'[j].isRead]_vars

\* a voice message was posted, unread, behind the third seed message, which
\* was marked as read before
C33_Witness ==
  /\ res = Response("sendVoiceMessage", 201)
  /\ Len(chatMessages) = Len(SeedMessages) + 1
  /\ chatMessages[3] = [SeedMessages[3] EXCEPT !.isRead = TRUE]
  /\ ~chatMessages[Len(chatMessages)].isRead


\* the register body has its three required fields
HasRegisterFields(b) ==
  \A f \in 1..3 : IsSet(b[f]) /\ b[f][1] # ""

\* C35: in the VoiceRecorder, under every interleaving of press-in, press-out,
\* the auto-stop timer and close: once stopRecording has run and no press-in
\* has followed, isRecording is false and no auto-stop timer is pending; and
\* at most one auto-stop timer is pending at any time
C35_StoppedRecorderIsIdle ==
  /\ stopped => (~isRecording /\ timers = {})
  /\ Cardinality(timers) <= 1

\* the tickets whose subject, description or responses contain q and that pass
\* the filters of the query
FoundTickets(tickets, query) ==
  { i \in 1..Len(tickets) :
      /\ MatchesSearch(tickets[i], ToLowerCase(query.q[1]))
      /\ IsSet(query.category) => tickets[i].category = query.category[1]
      /\ IsSet(query.status) => tickets[i].status = query.status[1]
      /\ IsSet(query.priority) => tickets[i].priority = query.priority[1] }

\* C36: a GET request to /tickets/search with a non-empty q is answered by the
\* search handler, with the tickets whose subject, description or responses
\* contain q and that pass the category, status and priority filters, and not
\* by the lookup of one ticket
C36_SearchAnswersSearch ==
  [][\A query \in SupportQueries :
       (TruthyText(query.q) /\ supportGet(<<"tickets", "search">>, query))
       => /\ res'.op = "searchTickets"
          /\ res'.code = 200
          /\ res'.total = Cardinality(FoundTickets(supportTickets, query))
          /\ \A p \in 1..Len(res'.tickets) :
               \E i \in FoundTickets(supportTickets, query) :
                 res'.tickets[p] = supportTickets[i]]_vars

\* C37: the history of a user holds only rides of that user, newest first and
\* never more than limit of them, for every offset and limit of the query;
\* total is the number of all rides of that user
C37_HistoryWithinLimit ==
  [][res'.op = "history" =>
       \A q \in HistoryQueries :
         history(q[1], q[2], q[3])
         => LET found == res'.rides
                limit == IF IsSet(q[2]) THEN q[2][1] ELSE 10
            IN /\ \A p \in 1..Len(found) : found[p].passengerId = q[1]
               /\ \A p \in 1..Len(found) : \E i \in 1..Len(rides) : found[p] = rides[i]
               /\ \A p \in 1..(Len(found) - 1) :
                    found[p].createdAt >= found[p + 1].createdAt
               /\ Len(found) <= limit
               /\ res'.total =
                    Cardinality({i \in 1..Len(rides) : rides[i].passengerId = q[1]})]_vars


\* C34: user emails stay unique under every interleaving of concurrent
\* register requests: the users array never holds two users with one email,
\* and a register for a stored email answers 409 and adds no user
C34_EmailsUnique ==
  [][/\ \A i, j \in 1..Len(users') : users'[i].email = users'[j].email => i = j
     /\ \A b \in RegisterBodies :
          ( /\ HasRegisterFields(b)
            /\ \E i \in 1..Len(users) : users[i].email = b[1][1]
            /\ register(b[1], b[2], b[3]) )
          => (res' = Response("register", 409) /\ users' = users)]_vars

============================================================================
